---- MODULE Spec2Model ----
(***************************************************************************)
(* Mission orchestration of AI_SCOUT: the JSON job store (JobManager),     *)
(* the per-job pipeline (process_mission_task), the request handler that   *)
(* creates jobs (launch_mission) and the recurring scheduler               *)
(* (MissionScheduler).                                                     *)
(*                                                                         *)
(* Threads.  launch_mission and the scheduler are coroutines of one event  *)
(* loop; neither awaits between two store calls, so they never interleave  *)
(* with each other.  process_mission_task runs in worker threads           *)
(* (BackgroundTasks / asyncio.to_thread) and interleaves with the event    *)
(* loop and with other workers at the granularity of file operations:      *)
(* _load (read the whole file), open(path, 'w') (truncate) and json.dump   *)
(* (write the whole snapshot).                                             *)
(*                                                                         *)
(* Time is counted in hours.  uuid4 ids are modelled as pairwise distinct  *)
(* values (a counter); no statement about id collisions is derived from    *)
(* that.  A recurrence is None or "DAILY", as in the store.                *)
(*                                                                         *)
(* The specifications share the actions.  Spec is the service started on   *)
(* an empty store.  SpecSched is the scheduler and its workers started on  *)
(* a store that holds a recurring job; FairSched adds that the event loop  *)
(* goes on running the start() task, SpecDue leaves the workers out,       *)
(* SpecStop adds a caller of stop(), SpecPace starts beside the worker of  *)
(* the recurring job itself and SpecCycle on a store with two recurring    *)
(* jobs, one of them without a bbox.  SpecExec is two runs of              *)
(* process_mission_task side by side, SpecFail the same on a store whose   *)
(* calls may raise.  SpecStore is the JobManager alone under concurrent    *)
(* callers, SpecSeq the JobManager under one caller.  SpecSup is the batch *)
(* run of supervisor.py (MissionSupervisor), a process of its own that     *)
(* shares no state with the service; SpecUnit calls its methods one at a   *)
(* time on drawn arguments.  SpecAuth is SentinelHubAuth constructed by    *)
(* two threads.                                                            *)
(***************************************************************************)
EXTENDS Integers, Sequences, FiniteSets, TLC

\* ---------------------------------------------------------------- bounds
MaxJobs == 3
MaxLaunches == 1
MaxTicks == 1
MaxCalls == 2
MaxSeq == 2
MaxGrid == 6
MaxWords == 2
MaxPixels == 2
MaxFiles == 2
MaxCount == 10
MaxThreads == 2

\* ------------------------------------------------------- program constants
DueHours == 24
SleepHours == 1
WindowHours == 24
LimiterSize == 5
DefaultDays == 30
ExpandDays == 60

TickSteps == {SleepHours, DueHours + 1}

Sensors == {"OPTICAL", "RADAR"}

\* ------------------------------------------------------------ conversions
\* Optional values: None is the empty sequence, a value v is <<v>>.
None == <<>>
Some(v) == <<v>>
IsNone(o) == Len(o) = 0

\* datetime.isoformat() / datetime.fromisoformat(): the stored timestamp is
\* a string; the model keeps it as a tagged value distinct from the number.
isoformat(t) == [iso |-> t]
fromisoformat(s) == s.iso

\* sentinelhub.BBox(bbox=list, crs=CRS.WGS84) and the list stored in a job.
BBox(l) == [lower_left |-> <<l[1], l[2]>>, upper_right |-> <<l[3], l[4]>>, crs |-> "WGS84"]
bbox_list(b) == <<b.lower_left[1], b.lower_left[2], b.upper_right[1], b.upper_right[2]>>

\* ------------------------------------------------------------------ file
\* Content of jobs.json: a JSON document {"jobs": {...}}, an empty file
\* (just truncated by open(path, 'w')) or bytes that do not parse.
EmptyJobs == [j \in {} |-> None]
Valid(jobs) == [kind |-> "valid", jobs |-> jobs]
Truncated == [kind |-> "empty", jobs |-> EmptyJobs]
Garbage == [kind |-> "garbage", jobs |-> EmptyJobs]

\* JobManager._load: a file that does not parse reads as an empty store.
_load(f) == IF f.kind = "valid" THEN f.jobs ELSE EmptyJobs

\* JobManager._save, second half (json.dump + close).  The writer truncated
\* the file when it opened it; if another writer has written since, the
\* bytes of this snapshot overlay the other snapshot from offset 0 and the
\* result parses only when this snapshot is at least as long: it is longer
\* with more jobs, shorter with fewer, and either with the same jobs.
WriteOutcomes(f, data) ==
    IF f.kind = "empty" \/ f = Valid(data) THEN {Valid(data)}
    ELSE IF f.kind = "garbage" THEN {Valid(data), Garbage}
    ELSE IF Cardinality(DOMAIN data) > Cardinality(DOMAIN f.jobs) THEN {Valid(data)}
    ELSE IF Cardinality(DOMAIN data) < Cardinality(DOMAIN f.jobs) THEN {Garbage}
    ELSE {Valid(data), Garbage}

\* dict.update: key-wise overwrite.
Merge(cur, patch) ==
    [k \in (DOMAIN cur) \cup (DOMAIN patch) |->
        IF k \in DOMAIN patch THEN patch[k] ELSE cur[k]]

Put(jobs, id, job) ==
    [k \in (DOMAIN jobs) \cup {id} |-> IF k = id THEN job ELSE jobs[k]]

NoPatch == [k \in {} |-> None]
EmptyResults == [raw_files |-> <<>>, processed_files |-> <<>>, pdf_report |-> None]

\* JobManager.create_job: the job dictionary built from the metadata.
NewJob(job_id, metadata, t) ==
    [id |-> job_id,
     status |-> "PENDING",
     created_at |-> isoformat(t),
     recurrence |-> metadata.recurrence,
     last_run |-> None,
     sensor |-> metadata.sensor,
     start_date |-> metadata.start_date,
     end_date |-> metadata.end_date,
     bbox |-> metadata.bbox,
     parent_job_id |-> metadata.parent_job_id,
     tag |-> metadata.tag,
     error |-> None,
     results |-> EmptyResults]

\* JobManager.update_job_status: the mutation of the loaded snapshot
\* (updated_at, which nothing reads, is left out).
StatusUpdated(job, status, results, error) ==
    [job EXCEPT !.status = status,
                !.results = IF DOMAIN results # {} THEN Merge(@, results) ELSE @,
                !.error = IF IsNone(error) \/ error = Some("") THEN @ ELSE error]

\* An update_last_run that stamps created_at as well.
LastRunUpdated_stamped(job, t) ==
    [job EXCEPT !.last_run = Some(isoformat(t)), !.created_at = isoformat(t)]

\* JobManager.update_last_run: the mutation of the loaded snapshot.
LastRunUpdated(job, t) == [job EXCEPT !.last_run = Some(isoformat(t))]

\* JobManager.get_job on the current file.
get_job(f, job_id) ==
    IF job_id \in DOMAIN _load(f) THEN Some(_load(f)[job_id]) ELSE None

\* ------------------------------------------------------------------ state
VARIABLES
    file,     \* content of jobs.json
    now,      \* datetime.utcnow(), in hours
    ticks,    \* number of clock advances so far
    ids,      \* number of ids drawn from uuid4
    launches, \* number of launch_mission requests served
    pc,       \* thread -> position; threads are <<"loop", 0>> and <<"ex", job_id>>
    call,     \* thread -> the JobManager mutation it is inside of
    ex,       \* job_id -> arguments and locals of its process_mission_task run
    sched,    \* the MissionScheduler object and the position of its start() task
    lm,       \* locals of the launch_mission handler that is running, if any
    log,      \* history: the calls issued so far that a property refers to, in order
    ideal,    \* history: the jobs as the calls that have returned define them
    persisted, \* history: job_id -> the statuses a readable file has shown for it
    filled,   \* history: job_id -> the results keys a readable file has shown filled
    born,     \* history: job_id -> its mission parameters when a readable file first showed it
    sup,      \* the MissionSupervisor object, its semaphore and its mission tasks
    unit,     \* a method of the supervisor called on its own: arguments and result
    auth      \* the SentinelHubAuth class, its instance, the SHConfig objects and the
              \* threads that construct it

vars == <<file, now, ticks, ids, launches, pc, call, ex, sched, lm, log, ideal, persisted, filled, born, sup, unit, auth>>

\* The class SentinelHubAuth as loaded: no instance, the lock free, no
\* SHConfig made, no thread constructing.
NoAuth == [_instance |-> None, _lock |-> None, objs |-> <<>>, configs |-> <<>>, t |-> <<>>]

\* No method is being called on its own.
NoUnit == [method |-> "none"]

\* MissionSupervisor.__init__; no batch run has been started.
NewSupervisor ==
    [started |-> FALSE, finished |-> FALSE, total_missions |-> 0,
     completed_missions |-> 0, failed_missions |-> <<>>, value |-> 0, m |-> <<>>,
     last |-> <<>>, caught |-> <<>>]

Loop == <<"loop", 0>>
Ex(j) == <<"ex", j>>

NoCall == [op |-> "none"]

\* A thread enters a JobManager mutation: the call starts with _load().
BeginCall(t, c, ret) ==
    /\ call' = [k \in (DOMAIN call) \cup {t} |->
                 IF k = t THEN [c EXCEPT !.data = _load(file), !.ret = ret, !.pc = "open"]
                 ELSE call[k]]
    /\ pc' = [k \in (DOMAIN pc) \cup {t} |-> IF k = t THEN "call" ELSE pc[k]]

CreateCall(job_id, metadata) ==
    [op |-> "create_job", job_id |-> job_id, metadata |-> metadata,
     data |-> EmptyJobs, ret |-> "", pc |-> ""]
StatusCall(job_id, status, results, error) ==
    [op |-> "update_job_status", job_id |-> job_id, status |-> status,
     results |-> results, error |-> error, data |-> EmptyJobs, ret |-> "", pc |-> ""]
LastRunCall(job_id, last_run) ==
    [op |-> "update_last_run", job_id |-> job_id, last_run |-> last_run,
     data |-> EmptyJobs, ret |-> "", pc |-> ""]

\* The snapshot a mutation hands to _save, from the snapshot it loaded.
Mutated(c, t) ==
    CASE c.op = "create_job" ->
            Put(c.data, c.job_id, NewJob(c.job_id, c.metadata, t))
      [] c.op = "update_job_status" ->
            [c.data EXCEPT ![c.job_id] = StatusUpdated(@, c.status, c.results, c.error)]
      [] c.op = "update_last_run" ->
            [c.data EXCEPT ![c.job_id] = LastRunUpdated(@, c.last_run)]

\* A JobManager whose updates save without looking the id up.
Saves_unconditional(c) == c.op \in {"create_job", "update_job_status", "update_last_run"}

\* create_job always saves; the two updates save only when the id is known.
Saves(c) == c.op = "create_job" \/ c.job_id \in DOMAIN c.data

Init ==
    /\ file = Valid(EmptyJobs)
    /\ now = 0
    /\ ticks = 0
    /\ ids = 0
    /\ launches = 0
    /\ pc = [t \in {Loop} |-> "idle"]
    /\ call = [t \in {Loop} |-> NoCall]
    /\ ex = [j \in {} |-> None]
    /\ sched = [running |-> FALSE, task |-> "none", wake |-> 0, jobs |-> <<>>,
                job |-> None, child |-> None, stopped |-> FALSE, cycle |-> 0]
    /\ lm = None
    /\ log = <<>>
    /\ ideal = EmptyJobs
    /\ persisted = EmptyJobs
    /\ filled = EmptyJobs
    /\ born = EmptyJobs
    /\ sup = NewSupervisor
    /\ unit = NoUnit
    /\ auth = NoAuth

\* Arguments of a process_mission_task run and its locals.
Task(bbox, time_interval, sensor) ==
    [bbox |-> bbox, time_interval |-> time_interval, sensor |-> sensor,
     raw_files |-> <<>>, processed_files |-> <<>>, job |-> None,
     invoked |-> NoPatch, end |-> ""]

\* The call returns to its caller.
Return(t, ret) ==
    /\ pc' = [pc EXCEPT ![t] = ret]
    /\ ex' = ex

\* History.  Returned(c, jobs): the jobs after call c has taken effect on
\* jobs as one atomic step.  Shown(f, p): the statuses seen so far, with
\* those that file content f shows.
Returned(c, jobs) ==
    IF c.op = "create_job" THEN Put(jobs, c.job_id, c.data[c.job_id])
    ELSE IF c.job_id \notin DOMAIN jobs THEN jobs
    ELSE IF c.op = "update_job_status"
    THEN [jobs EXCEPT ![c.job_id] = StatusUpdated(@, c.status, c.results, c.error)]
    ELSE [jobs EXCEPT ![c.job_id] = LastRunUpdated(@, c.last_run)]

Shown(f, p) ==
    [j \in (DOMAIN p) \cup (DOMAIN _load(f)) |->
        (IF j \in DOMAIN p THEN p[j] ELSE {})
        \cup (IF j \in DOMAIN _load(f) THEN {_load(f)[j].status} ELSE {})]

\* Filled(f, p): the results keys seen so far with a value other than the
\* initial one ([] or None), with those that file content f shows.
NonEmpty(results) ==
    {k \in DOMAIN results : k \notin DOMAIN EmptyResults \/ results[k] # EmptyResults[k]}
Filled(f, p) ==
    [j \in (DOMAIN p) \cup (DOMAIN _load(f)) |->
        (IF j \in DOMAIN p THEN p[j] ELSE {})
        \cup (IF j \in DOMAIN _load(f) THEN NonEmpty(_load(f)[j].results) ELSE {})]

\* Born(f, p): the identity and mission parameters of each job as the
\* first readable file that held the job showed them.
Parameters(job) ==
    [id |-> job.id, created_at |-> job.created_at, bbox |-> job.bbox,
     start_date |-> job.start_date, end_date |-> job.end_date,
     sensor |-> job.sensor, parent_job_id |-> job.parent_job_id]
Born(f, p) ==
    [j \in (DOMAIN p) \cup (DOMAIN _load(f)) |->
        IF j \in DOMAIN p THEN p[j] ELSE Parameters(_load(f)[j])]

\* ------------------------------------------------------ JobManager steps
\* The mutation after _load: build the new snapshot and open the file for
\* writing (which truncates it), or return when the id is unknown.
JM_open(t) ==
    /\ t \in DOMAIN pc /\ pc[t] = "call" /\ call[t].pc = "open"
    /\ IF Saves(call[t])
       THEN /\ call' = [call EXCEPT ![t].data = Mutated(call[t], now), ![t].pc = "write"]
            /\ file' = Truncated
            /\ UNCHANGED <<pc, ex>>
            /\ UNCHANGED ideal
       ELSE /\ call' = [call EXCEPT ![t] = NoCall]
            /\ Return(t, call[t].ret)
            /\ ideal' = Returned(call[t], ideal)
            /\ UNCHANGED file
    /\ UNCHANGED <<now, ticks, ids, launches, sched, lm, log, persisted, filled, born, sup, unit, auth>>

\* json.dump and close: the snapshot reaches the file; the call returns.
JM_write(t) ==
    /\ t \in DOMAIN pc /\ pc[t] = "call" /\ call[t].pc = "write"
    /\ file' \in WriteOutcomes(file, call[t].data)
    /\ call' = [call EXCEPT ![t] = NoCall]
    /\ Return(t, call[t].ret)
    /\ ideal' = Returned(call[t], ideal)
    /\ persisted' = Shown(file', persisted)
    /\ filled' = Filled(file', filled)
    /\ born' = Born(file', born)
    /\ UNCHANGED <<now, ticks, ids, launches, sched, lm, log, sup, unit, auth>>

\* ------------------------------------------------------------------ clock
Tick ==
    /\ ticks < MaxTicks
    /\ pc[Loop] = "idle"
    /\ sched.task = "sleeping"
    /\ now < sched.wake
    /\ \E d \in TickSteps : now' = now + d
    /\ ticks' = ticks + 1
    /\ UNCHANGED <<file, ids, launches, pc, call, ex, sched, lm, log, ideal, persisted, filled, born, sup, unit, auth>>

\* ---------------------------------------------------------- launch_mission
\* The request after geometry parsing and the catalog search: region,
\* effective sensor and recurrence.  Its dates are strings.
Requests ==
    {[region |-> <<0, 0, 1, 1>>, sensor |-> "OPTICAL", recurrence |-> None],
     [region |-> <<2, 2, 3, 3>>, sensor |-> "OPTICAL", recurrence |-> Some("DAILY")],
     [region |-> <<2, 2, 3, 3>>, sensor |-> "RADAR", recurrence |-> Some("DAILY")]}

LaunchMetadata(bbox, sensor, recurrence) ==
    [sensor |-> sensor,
     start_date |-> "request.start_date",
     end_date |-> "request.end_date",
     bbox |-> bbox_list(bbox),
     recurrence |-> recurrence,
     parent_job_id |-> None,
     tag |-> "None"]

\* A worker is handed process_mission_task(job_id, ...); it starts once the
\* event loop gets to run the task.
Dispatch(job_id, task) ==
    /\ ex' = [k \in (DOMAIN ex) \cup {job_id} |-> IF k = job_id THEN task ELSE ex[k]]
    /\ pc' = [k \in (DOMAIN pc) \cup {Ex(job_id)} |->
                 IF k = Ex(job_id) THEN "task" ELSE IF k = Loop THEN "idle" ELSE pc[k]]
    /\ call' = [k \in (DOMAIN call) \cup {Ex(job_id)} |->
                 IF k = Ex(job_id) THEN NoCall ELSE call[k]]

\* launch_mission up to the _load of create_job.
launch_mission(region, sensor, recurrence) ==
    /\ pc[Loop] = "idle"
    /\ sched.task \notin {"none", "scheduled"}
    /\ ~sched.stopped
    /\ ids < MaxJobs
    /\ launches < MaxLaunches
    /\ ids' = ids + 1
    /\ launches' = launches + 1
    /\ lm' = Some([job_id |-> ids + 1, bbox |-> BBox(region), sensor |-> sensor,
                   time_interval |-> [str |-> TRUE]])
    /\ BeginCall(Loop, CreateCall(ids + 1, LaunchMetadata(BBox(region), sensor, recurrence)),
                 "l_dispatch")
    /\ UNCHANGED <<file, now, ticks, ex, sched, log, ideal, persisted, filled, born, sup, unit, auth>>

\* launch_mission after create_job: background_tasks.add_task(...), return.
launch_dispatch ==
    /\ pc[Loop] = "l_dispatch"
    /\ Dispatch(lm[1].job_id, Task(lm[1].bbox, lm[1].time_interval, lm[1].sensor))
    /\ lm' = None
    /\ UNCHANGED <<file, now, ticks, ids, launches, sched, log, ideal, persisted, filled, born, sup, unit, auth>>

\* ------------------------------------------------- process_mission_task
\* The steps between two accesses to jobs.json touch only the worker's own
\* locals and the collaborators; each action below takes them together with
\* the file access that follows them.  A step maps the locals to the set of
\* locals its collaborator can leave; once the run has ended (l.end is set)
\* the later steps do nothing.
Outcomes == {"files", "empty", "raise"}

\* str(e) of an exception caught by the outer handler.
ExcText == "str(e)"
NoDownload == "No data downloaded (or sensor not supported for processing)"
NoOutput == "No data processed (Analytics produced no output)"

\* l.invoked: the calls the run has made so far, each with how it ended.
Invoked(l, name, outcome) == [l EXCEPT !.invoked = Put(@, name, outcome)]
Raised(l) == [l EXCEPT !.end = "raise"]

\* 1. Download: S2Client().download_data for OPTICAL, nothing otherwise.
download_data(l) ==
    IF l.sensor # "OPTICAL" THEN {l}
    ELSE {[Invoked(l, "download_data", "files") EXCEPT !.raw_files = <<"S2">>],
          Invoked(l, "download_data", "empty"),
          Raised(Invoked(l, "download_data", "raise"))}

\* Era5Client().download_data formats the start date with strftime, which
\* the strings of a request do not have.  The call sits in its own
\* try/except: a failure leaves raw_files as they are.
EnrichOutcomes(time_interval) ==
    IF "str" \in DOMAIN time_interval THEN {"raise"} ELSE Outcomes

weather(l) ==
    IF l.end # "" THEN {l}
    ELSE {[Invoked(l, "weather", o) EXCEPT
              !.raw_files = IF o = "files" THEN @ \o <<"ERA5">> ELSE @] :
          o \in EnrichOutcomes(l.time_interval)}

check_raw_absent(l) == l

\* if not raw_files: FAILED, return.
check_raw(l) ==
    IF l.end = "" /\ l.raw_files = <<>> THEN [l EXCEPT !.end = NoDownload] ELSE l

\* processor.run without the test of its result that follows it.
run_unchecked(l) ==
    IF l.end # "" THEN {l}
    ELSE {[Invoked(l, "run", "files") EXCEPT !.processed_files = <<"NDVI">>],
          Invoked(l, "run", "empty"),
          Raised(Invoked(l, "run", "raise"))}

\* 2. processor.run(input_files=raw_files); if not processed_files: FAILED.
run(l) ==
    IF l.end # "" THEN {l}
    ELSE {[Invoked(l, "run", "files") EXCEPT !.processed_files = <<"NDVI">>],
          [Invoked(l, "run", "empty") EXCEPT !.end = NoOutput],
          Raised(Invoked(l, "run", "raise"))}

\* Change detection of a recurrence instance: job.get("parent_job_id")
\* raises when get_job returned None; with a parent, the previous NDVI file
\* is looked up by glob and calculate_change is called, outside any try of
\* its own when the glob has found one.
chronos(l, job) ==
    IF l.end # "" THEN {l}
    ELSE IF IsNone(job) THEN {Raised(l)}
    ELSE IF IsNone(job[1].parent_job_id) THEN {l}
    ELSE {Invoked(l, "glob", "none")} \cup
         LET p == Invoked(l, "glob", "found")
         IN {[Invoked(p, "calculate_change", "files") EXCEPT
                 !.processed_files = @ \o <<"CHANGE">>],
             Invoked(p, "calculate_change", "empty"),
             Raised(Invoked(p, "calculate_change", "raise"))}

\* STAC registration without the try/except around it.
add_item_unguarded(l) ==
    IF l.end # "" THEN {l}
    ELSE {Invoked(l, "add_item", "ok"), Raised(Invoked(l, "add_item", "raise"))}

\* 3. STAC registration, inside try/except: a failure is logged.
add_item(l) ==
    IF l.end # "" THEN {l}
    ELSE {Invoked(l, "add_item", "ok"), Invoked(l, "add_item", "raise")}

\* 4. generate_pdf, outside any try of its own.
generate_pdf(l) ==
    IF l.end # "" THEN {l}
    ELSE {[Invoked(l, "generate_pdf", "ok") EXCEPT !.end = "ok"],
          Raised(Invoked(l, "generate_pdf", "raise"))}

Ingested(l) ==
    UNION {run(check_raw(w)) : w \in UNION {weather(d) : d \in download_data(l)}}
Reported(l, job) ==
    UNION {generate_pdf(s) : s \in UNION {add_item(c) : c \in chronos(l, job)}}

\* A run that records its early returns as COMPLETED with the reason.
FinalCall_lenient(j, l) ==
    CASE l.end = "ok" ->
            StatusCall(j, "COMPLETED",
                       [raw_files |-> l.raw_files,
                        processed_files |-> l.processed_files,
                        pdf_report |-> Some(<<"results", "Evidence_Pack", j>>)],
                       None)
      [] l.end = "raise" -> StatusCall(j, "FAILED", NoPatch, Some(ExcText))
      [] OTHER -> StatusCall(j, "COMPLETED", NoPatch, Some(l.end))

\* The update_job_status call that ends the run.
FinalCall(j, l) ==
    CASE l.end = "ok" ->
            StatusCall(j, "COMPLETED",
                       [raw_files |-> l.raw_files,
                        processed_files |-> l.processed_files,
                        pdf_report |-> Some(<<"results", "Evidence_Pack", j>>)],
                       None)
      [] l.end = "raise" -> StatusCall(j, "FAILED", NoPatch, Some(ExcText))
      [] OTHER -> StatusCall(j, "FAILED", NoPatch, Some(l.end))

\* job = jm.get_job(job_id): the job read, or None.
got_job(l, job) ==
    [Invoked(l, "get_job", IF IsNone(job) THEN "none" ELSE "job") EXCEPT !.job = job]

ExAt(j, label) == j \in DOMAIN ex /\ pc[Ex(j)] = label

\* The worker starts: jm.update_job_status(job_id, "RUNNING"), up to its _load.
ExStart(j) ==
    /\ ExAt(j, "task")
    /\ pc[Loop] = "idle"
    /\ BeginCall(Ex(j), StatusCall(j, "RUNNING", NoPatch, None), "ingest")
    /\ UNCHANGED <<file, now, ticks, ids, launches, ex, sched, lm, log, ideal, persisted, filled, born, sup, unit, auth>>

\* Download, weather context and analytics; then either the run is over
\* or jm.get_job(job_id) reads the file.
ExIngest(j) ==
    /\ ExAt(j, "ingest")
    /\ \E l \in Ingested(ex[j]) :
         IF l.end # ""
         THEN /\ ex' = [ex EXCEPT ![j] = l]
              /\ pc' = [pc EXCEPT ![Ex(j)] = "finish"]
         ELSE /\ ex' = [ex EXCEPT ![j] = got_job(l, get_job(file, j))]
              /\ pc' = [pc EXCEPT ![Ex(j)] = "report"]
    /\ UNCHANGED <<file, now, ticks, ids, launches, call, sched, lm, log, ideal, persisted, filled, born, sup, unit, auth>>

\* Change detection, STAC registration and the report.
ExReport(j) ==
    /\ ExAt(j, "report")
    /\ \E l \in Reported(ex[j], ex[j].job) : ex' = [ex EXCEPT ![j] = l]
    /\ pc' = [pc EXCEPT ![Ex(j)] = "finish"]
    /\ UNCHANGED <<file, now, ticks, ids, launches, call, sched, lm, log, ideal, persisted, filled, born, sup, unit, auth>>

\* 5. Finish, the early returns and the outer handler: the
\* update_job_status that ends the run, up to its _load.  Its arguments
\* are evaluated, and nothing reads the locals of the run after that.
ExFinish(j) ==
    /\ ExAt(j, "finish")
    /\ BeginCall(Ex(j), FinalCall(j, ex[j]), "done")
    /\ ex' = [ex EXCEPT ![j] = Task(@.bbox, @.time_interval, @.sensor)]
    /\ UNCHANGED <<file, now, ticks, ids, launches, sched, lm, log, ideal, persisted, filled, born, sup, unit, auth>>

\* ------------------------------------------------------- MissionScheduler
\* JobManager.list_jobs: the jobs of the file sorted by created_at,
\* latest first; list.sort is stable, so jobs created at the same instant
\* keep their order in the file, which is the order of creation.
Before_ascending(a, b) ==
    \/ fromisoformat(a.created_at) < fromisoformat(b.created_at)
    \/ fromisoformat(a.created_at) = fromisoformat(b.created_at) /\ a.id <= b.id

Before(a, b) ==
    \/ fromisoformat(a.created_at) > fromisoformat(b.created_at)
    \/ fromisoformat(a.created_at) = fromisoformat(b.created_at) /\ a.id <= b.id

RECURSIVE Sorted(_, _)
Sorted(jobs, S) ==
    IF S = {} THEN <<>>
    ELSE LET first == CHOOSE j \in S : \A k \in S : Before(jobs[j], jobs[k])
         IN <<jobs[first]>> \o Sorted(jobs, S \ {first})

list_jobs(f) == Sorted(_load(f), DOMAIN _load(f))

\* The decision with "24 hours or more" in place of "more than 24 hours".
should_run_from_24h(last_run_str, t) ==
    IF IsNone(last_run_str) THEN TRUE
    ELSE IF "iso" \notin DOMAIN last_run_str[1] THEN TRUE
    ELSE t - fromisoformat(last_run_str[1]) >= DueHours

\* process_recurring_job, the decision: run when there is no last_run, when
\* it does not parse, or when more than 24 hours have passed since.
should_run(last_run_str, t) ==
    IF IsNone(last_run_str) THEN TRUE
    ELSE IF "iso" \notin DOMAIN last_run_str[1] THEN TRUE
    ELSE t - fromisoformat(last_run_str[1]) > DueHours

\* The metadata with the parent's recurrence copied to the instance.
ChildMetadata_recurring(job, t) ==
    [sensor |-> job.sensor,
     start_date |-> isoformat(t - WindowHours),
     end_date |-> isoformat(t),
     bbox |-> job.bbox,
     parent_job_id |-> Some(job.id),
     recurrence |-> job.recurrence,
     tag |-> "DAILY_RUN"]

\* process_recurring_job: the metadata of the execution instance.
ChildMetadata(job, t) ==
    [sensor |-> job.sensor,
     start_date |-> isoformat(t - WindowHours),
     end_date |-> isoformat(t),
     bbox |-> job.bbox,
     parent_job_id |-> Some(job.id),
     recurrence |-> None,
     tag |-> "DAILY_RUN"]

\* startup_event: asyncio.create_task(scheduler.start()).
startup_event ==
    /\ sched.task = "none"
    /\ pc[Loop] = "idle"
    /\ sched' = [sched EXCEPT !.task = "scheduled"]
    /\ UNCHANGED <<file, now, ticks, ids, launches, pc, call, ex, lm, log, ideal, persisted, filled, born, sup, unit, auth>>

\* shutdown_event: scheduler.stop().
shutdown_event ==
    /\ sched.task # "none"
    /\ ~sched.stopped
    /\ pc[Loop] = "idle"
    /\ sched' = [sched EXCEPT !.running = FALSE, !.stopped = TRUE]
    /\ UNCHANGED <<file, now, ticks, ids, launches, pc, call, ex, lm, log, ideal, persisted, filled, born, sup, unit, auth>>

\* check_jobs begins: the listing the cycle iterates over.
BeginCycle ==
    /\ pc' = [pc EXCEPT ![Loop] = "s_next"]
    /\ sched' = [sched EXCEPT !.running = TRUE, !.task = "cycle",
                              !.jobs = list_jobs(file), !.cycle = @ + 1]

\* start(), first step of the task: self.running = True, first check_jobs.
SchedStart ==
    /\ sched.task = "scheduled"
    /\ pc[Loop] = "idle"
    /\ BeginCycle
    /\ UNCHANGED <<file, now, ticks, ids, launches, call, ex, lm, log, ideal, persisted, filled, born, sup, unit, auth>>

\* check_jobs, a job that is not recurring or not due: nothing is done.
SchedSkip ==
    /\ pc[Loop] = "s_next"
    /\ sched.jobs # <<>>
    /\ LET job == Head(sched.jobs) IN
         ~(job.recurrence = Some("DAILY") /\ should_run(job.last_run, now))
    /\ sched' = [sched EXCEPT !.jobs = Tail(@)]
    /\ UNCHANGED <<file, now, ticks, ids, launches, pc, call, ex, lm, log, ideal, persisted, filled, born, sup, unit, auth>>

\* process_recurring_job for a due job, up to the _load of create_job.
SchedSpawn ==
    /\ pc[Loop] = "s_next"
    /\ sched.jobs # <<>>
    /\ ids < MaxJobs
    /\ LET job == Head(sched.jobs) IN
         /\ job.recurrence = Some("DAILY") /\ should_run(job.last_run, now)
         /\ ids' = ids + 1
         /\ sched' = [sched EXCEPT !.jobs = Tail(@), !.job = Some(job),
                                   !.child = Some([job_id |-> ids + 1,
                                                   start_date |-> now - WindowHours,
                                                   end_date |-> now])]
         /\ BeginCall(Loop, CreateCall(ids + 1, ChildMetadata(job, now)), "s_dispatch")
         /\ log' = Append(log, [cycle |-> sched.cycle, parent |-> job.id,
                                child |-> ids + 1, at |-> now])
    /\ UNCHANGED <<file, now, ticks, launches, ex, lm, ideal, persisted, filled, born, sup, unit, auth>>

\* The dispatch with the pipeline awaited (await asyncio.to_thread(...)): the
\* scheduler goes on only when the child's run has ended.
SchedDispatch_awaited ==
    /\ pc[Loop] = "s_dispatch"
    /\ sched.child[1].job_id \in DOMAIN ex
    /\ pc[Ex(sched.child[1].job_id)] = "done"
    /\ UNCHANGED vars

\* BBox(bbox=bbox_list, crs=CRS.WGS84): the constructor raises unless the
\* stored list gives the four coordinates (job.get("bbox") is None when
\* the stored job has none).
BBox_raises(l) == Len(l) # 4

\* process_recurring_job after create_job, the BBox cannot be rebuilt: the
\* exception leaves process_recurring_job and check_jobs, whose loop over
\* the jobs is abandoned; start() catches it, logs it and sleeps.
SchedRaise ==
    /\ pc[Loop] = "s_dispatch"
    /\ BBox_raises(sched.job[1].bbox)
    /\ sched' = [sched EXCEPT !.task = "sleeping", !.wake = now + SleepHours,
                              !.jobs = <<>>, !.job = None, !.child = None]
    /\ pc' = [pc EXCEPT ![Loop] = "idle"]
    /\ UNCHANGED <<file, now, ticks, ids, launches, call, ex, lm, log, ideal, persisted, filled, born, sup, unit, auth>>

\* process_recurring_job after create_job: rebuild the BBox, hand the child
\* to a worker thread, then update_last_run(parent, utcnow()) up to its _load.
SchedDispatch ==
    /\ pc[Loop] = "s_dispatch"
    /\ ~BBox_raises(sched.job[1].bbox)
    /\ LET job == sched.job[1]
           child == sched.child[1]
       IN /\ ex' = [k \in (DOMAIN ex) \cup {child.job_id} |->
                      IF k = child.job_id
                      THEN Task(BBox(job.bbox),
                                [start |-> child.start_date, end |-> child.end_date],
                                job.sensor)
                      ELSE ex[k]]
          /\ call' = [k \in DOMAIN call \cup {Ex(child.job_id)} |->
                        IF k = Loop
                        THEN [LastRunCall(job.id, now) EXCEPT
                                 !.data = _load(file), !.ret = "s_next", !.pc = "open"]
                        ELSE IF k = Ex(child.job_id) THEN NoCall ELSE call[k]]
          /\ pc' = [k \in DOMAIN pc \cup {Ex(child.job_id)} |->
                      IF k = Loop THEN "call"
                      ELSE IF k = Ex(child.job_id) THEN "task" ELSE pc[k]]
    /\ sched' = [sched EXCEPT !.job = None, !.child = None]
    /\ UNCHANGED <<file, now, ticks, ids, launches, lm, log, ideal, persisted, filled, born, sup, unit, auth>>

\* check_jobs is over: await asyncio.sleep(3600).
SchedSleep ==
    /\ pc[Loop] = "s_next"
    /\ sched.jobs = <<>>
    /\ sched' = [sched EXCEPT !.task = "sleeping", !.wake = now + SleepHours]
    /\ pc' = [pc EXCEPT ![Loop] = "idle"]
    /\ UNCHANGED <<file, now, ticks, ids, launches, call, ex, lm, log, ideal, persisted, filled, born, sup, unit, auth>>

\* The sleep is over and self.running still holds: the next check_jobs.
SchedWake ==
    /\ sched.task = "sleeping"
    /\ pc[Loop] = "idle"
    /\ now >= sched.wake
    /\ sched.running
    /\ BeginCycle
    /\ UNCHANGED <<file, now, ticks, ids, launches, call, ex, lm, log, ideal, persisted, filled, born, sup, unit, auth>>

\* The sleep is over and self.running is False: start() returns.
SchedExit ==
    /\ sched.task = "sleeping"
    /\ pc[Loop] = "idle"
    /\ now >= sched.wake
    /\ ~sched.running
    /\ sched' = [sched EXCEPT !.task = "exited"]
    /\ UNCHANGED <<file, now, ticks, ids, launches, pc, call, ex, lm, log, ideal, persisted, filled, born, sup, unit, auth>>

\* ------------------------------------------------------------ the system
Next ==
    \/ \E r \in Requests : launch_mission(r.region, r.sensor, r.recurrence)
    \/ launch_dispatch
    \/ \E t \in DOMAIN pc : JM_open(t)
    \/ \E t \in DOMAIN pc : JM_write(t)
    \/ \E j \in DOMAIN ex : ExStart(j)
    \/ \E j \in DOMAIN ex : ExIngest(j)
    \/ \E j \in DOMAIN ex : ExReport(j)
    \/ \E j \in DOMAIN ex : ExFinish(j)
    \/ startup_event
    \/ shutdown_event
    \/ SchedStart
    \/ SchedSkip
    \/ SchedSpawn
    \/ SchedDispatch
    \/ SchedSleep
    \/ SchedWake
    \/ SchedExit
    \/ Tick

Spec == Init /\ [][Next]_vars

\* ------------------------------------------ the scheduler on a kept store
\* The service starts on the jobs.json an earlier run has left: one
\* recurring job, never run or last run at hour 0, and the clock is around
\* 24 hours later.
StartHours == {DueHours - 1, DueHours, DueHours + 1}

StoredJob(job_id, sensor, recurrence, last_run) ==
    [NewJob(job_id, LaunchMetadata(BBox(<<2, 2, 3, 3>>), sensor, recurrence), 0)
        EXCEPT !.last_run = last_run]

InitSched ==
    /\ \E sensor \in Sensors, last_run \in {None, Some(isoformat(0))} :
         file = Valid(Put(EmptyJobs, 1, StoredJob(1, sensor, Some("DAILY"), last_run)))
    /\ now \in StartHours
    /\ ticks = 0
    /\ ids = 1
    /\ launches = 0
    /\ pc = [t \in {Loop} |-> "idle"]
    /\ call = [t \in {Loop} |-> NoCall]
    /\ ex = [j \in {} |-> None]
    /\ sched = [running |-> FALSE, task |-> "none", wake |-> 0, jobs |-> <<>>,
                job |-> None, child |-> None, stopped |-> FALSE, cycle |-> 0]
    /\ lm = None
    /\ log = <<>>
    /\ ideal = _load(file)
    /\ persisted = Shown(file, EmptyJobs)
    /\ filled = Filled(file, EmptyJobs)
    /\ born = Born(file, EmptyJobs)
    /\ sup = NewSupervisor
    /\ unit = NoUnit
    /\ auth = NoAuth

NextSched ==
    \/ \E t \in DOMAIN pc : JM_open(t)
    \/ \E t \in DOMAIN pc : JM_write(t)
    \/ \E j \in DOMAIN ex : ExStart(j)
    \/ \E j \in DOMAIN ex : ExIngest(j)
    \/ \E j \in DOMAIN ex : ExReport(j)
    \/ \E j \in DOMAIN ex : ExFinish(j)
    \/ startup_event
    \/ SchedStart
    \/ SchedSkip
    \/ SchedSpawn
    \/ SchedDispatch
    \/ SchedSleep
    \/ SchedWake
    \/ Tick

SpecSched == InitSched /\ [][NextSched]_vars

\* The steps of the start() task.  Once the event loop runs the task it
\* runs it up to its next await, which is the sleep: check_jobs and
\* process_recurring_job await nothing that suspends.  The workers are
\* under no such condition: a pipeline may take for ever.
LoopStep ==
    \/ JM_open(Loop)
    \/ JM_write(Loop)
    \/ SchedStart
    \/ SchedSkip
    \/ SchedSpawn
    \/ SchedDispatch
    \/ SchedSleep

FairSched == InitSched /\ [][NextSched]_vars /\ WF_vars(LoopStep)

\* The scheduler alone: the workers it hands the children to have not
\* started yet.
NextDue ==
    \/ JM_open(Loop)
    \/ JM_write(Loop)
    \/ startup_event
    \/ SchedStart
    \/ SchedSkip
    \/ SchedSpawn
    \/ SchedDispatch
    \/ SchedSleep
    \/ SchedWake
    \/ Tick

SpecDue == InitSched /\ [][NextDue]_vars

\* ------------------------------------------- the scheduler and its owner
\* MissionScheduler.stop(): self.running = False.  A plain method: its
\* caller may run it at any time after the start() task was created, from
\* the event loop between two steps of the task or from another thread
\* while check_jobs runs.
stop ==
    /\ sched.task # "none"
    /\ ~sched.stopped
    /\ sched' = [sched EXCEPT !.running = FALSE, !.stopped = TRUE]
    /\ UNCHANGED <<file, now, ticks, ids, launches, pc, call, ex, lm, log, ideal, persisted, filled, born, sup, unit, auth>>

NextStop ==
    \/ JM_open(Loop)
    \/ JM_write(Loop)
    \/ startup_event
    \/ stop
    \/ SchedStart
    \/ SchedSkip
    \/ SchedSpawn
    \/ SchedDispatch
    \/ SchedSleep
    \/ SchedWake
    \/ SchedExit
    \/ Tick

SpecStop == InitSched /\ [][NextStop]_vars


\* ------------------------------------- the scheduler beside a running job
\* launch_mission has stored the recurring job 1 and handed it to a worker
\* (background_tasks.add_task).  The worker has set the job RUNNING and its
\* pipeline has ended before the report; its last update_job_status has
\* not been called yet.  The start() task of the scheduler has not run:
\* the last_run of the job is None.
InitPace ==
    /\ now = 0
    /\ \E sensor \in Sensors :
         /\ file = Valid(Put(EmptyJobs, 1,
                             [StoredJob(1, sensor, Some("DAILY"), None)
                                 EXCEPT !.status = "RUNNING"]))
         /\ \E l \in Ingested(Task(BBox(<<2, 2, 3, 3>>), [str |-> TRUE], sensor)) :
              /\ l.end # ""
              /\ ex = [j \in {1} |-> l]
    /\ ticks = 0
    /\ ids = 1
    /\ launches = 0
    /\ pc = [t \in {Loop, Ex(1)} |-> IF t = Loop THEN "idle" ELSE "finish"]
    /\ call = [t \in {Loop, Ex(1)} |-> NoCall]
    /\ sched = [running |-> FALSE, task |-> "none", wake |-> 0, jobs |-> <<>>,
                job |-> None, child |-> None, stopped |-> FALSE, cycle |-> 0]
    /\ lm = None
    /\ log = <<>>
    /\ ideal = _load(file)
    /\ persisted = Shown(file, EmptyJobs)
    /\ filled = Filled(file, EmptyJobs)
    /\ born = Born(file, EmptyJobs)
    /\ sup = NewSupervisor
    /\ unit = NoUnit
    /\ auth = NoAuth

\* The scheduler and the worker of job 1: the workers the children are
\* handed to have not started yet.
NextPace ==
    \/ \E t \in {Loop, Ex(1)} : JM_open(t)
    \/ \E t \in {Loop, Ex(1)} : JM_write(t)
    \/ ExFinish(1)
    \/ startup_event
    \/ SchedStart
    \/ SchedSkip
    \/ SchedSpawn
    \/ SchedDispatch
    \/ SchedSleep
    \/ SchedWake
    \/ Tick

SpecPace == InitPace /\ [][NextPace]_vars

\* ------------------------------------------- a cycle over two kept jobs
\* The service starts on a jobs.json that holds two recurring jobs, both
\* due; one of them, the first or the second of the listing, has no bbox.
Kept == {0, 1}

InitCycle ==
    /\ \E sensor \in Sensors, bad \in Kept, last_run \in {None, Some(isoformat(0))} :
         file = Valid([j \in Kept |->
                         [StoredJob(j, sensor, Some("DAILY"), last_run)
                             EXCEPT !.bbox = IF j = bad THEN None ELSE @]])
    /\ now = DueHours + 1
    /\ ticks = 0
    /\ ids = 1
    /\ launches = 0
    /\ pc = [t \in {Loop} |-> "idle"]
    /\ call = [t \in {Loop} |-> NoCall]
    /\ ex = [j \in {} |-> None]
    /\ sched = [running |-> FALSE, task |-> "none", wake |-> 0, jobs |-> <<>>,
                job |-> None, child |-> None, stopped |-> FALSE, cycle |-> 0]
    /\ lm = None
    /\ log = <<>>
    /\ ideal = _load(file)
    /\ persisted = Shown(file, EmptyJobs)
    /\ filled = Filled(file, EmptyJobs)
    /\ born = Born(file, EmptyJobs)
    /\ sup = NewSupervisor
    /\ unit = NoUnit
    /\ auth = NoAuth

NextCycle ==
    \/ \E t \in DOMAIN pc : JM_open(t)
    \/ \E t \in DOMAIN pc : JM_write(t)
    \/ \E j \in DOMAIN ex : ExStart(j)
    \/ \E j \in DOMAIN ex : ExIngest(j)
    \/ \E j \in DOMAIN ex : ExReport(j)
    \/ \E j \in DOMAIN ex : ExFinish(j)
    \/ startup_event
    \/ SchedStart
    \/ SchedSkip
    \/ SchedSpawn
    \/ SchedRaise
    \/ SchedDispatch
    \/ SchedSleep
    \/ SchedWake
    \/ Tick

SpecCycle == InitCycle /\ [][NextCycle]_vars

\* ------------------------------------------------- two runs side by side
\* Two jobs of the same kind have been created and handed to workers: both
\* launched by a request (dates as strings, no parent), or both instances
\* of the recurring job 1 (datetimes, parent_job_id 1).  Neither worker has
\* started.  What the collaborators do is each run's own.
Kinds == {"launched", "child"}
Runs == {2, 3}

RunJob(job_id, kind, sensor, t) ==
    IF kind = "launched"
    THEN NewJob(job_id, LaunchMetadata(BBox(<<2, 2, 3, 3>>), sensor, None), t)
    ELSE NewJob(job_id, ChildMetadata(StoredJob(1, sensor, Some("DAILY"), None), t), t)

RunTask(kind, sensor, t) ==
    Task(BBox(<<2, 2, 3, 3>>),
         IF kind = "launched" THEN [str |-> TRUE]
         ELSE [start |-> isoformat(t - WindowHours), end |-> isoformat(t)],
         sensor)

InitExec ==
    /\ now = WindowHours
    /\ \E kind \in Kinds, sensor \in Sensors :
         /\ file = Valid([j \in IF kind = "child" THEN {1} \cup Runs ELSE Runs |->
                            IF j = 1
                            THEN StoredJob(1, sensor, Some("DAILY"), Some(isoformat(now)))
                            ELSE RunJob(j, kind, sensor, now)])
         /\ ex = [j \in Runs |-> RunTask(kind, sensor, now)]
    /\ ticks = 0
    /\ ids = 3
    /\ launches = 0
    /\ pc = [t \in {Loop} \cup {Ex(j) : j \in Runs} |-> IF t = Loop THEN "idle" ELSE "task"]
    /\ call = [t \in {Loop} \cup {Ex(j) : j \in Runs} |-> NoCall]
    /\ sched = [running |-> FALSE, task |-> "none", wake |-> 0, jobs |-> <<>>,
                job |-> None, child |-> None, stopped |-> FALSE, cycle |-> 0]
    /\ lm = None
    /\ log = <<>>
    /\ ideal = _load(file)
    /\ persisted = Shown(file, EmptyJobs)
    /\ filled = Filled(file, EmptyJobs)
    /\ born = Born(file, EmptyJobs)
    /\ sup = NewSupervisor
    /\ unit = NoUnit
    /\ auth = NoAuth

NextExec ==
    \/ \E t \in DOMAIN pc : JM_open(t)
    \/ \E t \in DOMAIN pc : JM_write(t)
    \/ \E j \in DOMAIN ex : ExStart(j)
    \/ \E j \in DOMAIN ex : ExIngest(j)
    \/ \E j \in DOMAIN ex : ExReport(j)
    \/ \E j \in DOMAIN ex : ExFinish(j)

SpecExec == InitExec /\ [][NextExec]_vars

\* ------------------------------------------- runs on a store that fails
\* An update_job_status of a run raises: open() fails with an OSError
\* (_load catches only JSONDecodeError and FileNotFoundError, _save
\* nothing).  The file is left as it is.  The first update, RUNNING, is
\* made before the try, and the update of the outer handler is not
\* guarded either: from both the error leaves process_mission_task.  From
\* an update made inside the try it reaches the outer handler, which makes
\* its own update.
InHandler(c) == c.ret = "done" /\ c.error = Some(ExcText)

JM_raise(j) ==
    /\ ExAt(j, "call")
    /\ call[Ex(j)].pc = "open"
    /\ IF call[Ex(j)].ret = "ingest" \/ InHandler(call[Ex(j)])
       THEN /\ call' = [call EXCEPT ![Ex(j)] = NoCall]
            /\ pc' = [pc EXCEPT ![Ex(j)] = "raised"]
       ELSE BeginCall(Ex(j), StatusCall(j, "FAILED", NoPatch, Some(ExcText)), "done")
    /\ UNCHANGED <<file, now, ticks, ids, launches, ex, sched, lm, log, ideal, persisted, filled, born, sup, unit, auth>>

NextFail ==
    \/ NextExec
    \/ \E j \in DOMAIN ex : JM_raise(j)

SpecFail == InitExec /\ [][NextFail]_vars

\* ------------------------------------------------ the store under callers
\* MaxCalls threads call one JobManager mutation each on a store of two
\* jobs: update_job_status or update_last_run on one of the two, or
\* create_job.
Cl(i) == <<"cl", i>>
Clients == {Cl(i) : i \in 1..MaxCalls}

StoredJobs ==
    Put(Put(EmptyJobs, 1, StoredJob(1, "OPTICAL", Some("DAILY"), None)),
        2, StoredJob(2, "OPTICAL", None, None))

SomeResults == [pdf_report |-> Some(<<"results", "Evidence_Pack", 1>>)]

ClientCalls(new_id) ==
    {StatusCall(j, status, results, error) :
        j \in DOMAIN StoredJobs,
        status \in {"RUNNING", "COMPLETED", "FAILED"},
        results \in {NoPatch, SomeResults},
        error \in {None, Some(ExcText)}}
    \cup {LastRunCall(j, DueHours) : j \in DOMAIN StoredJobs}
    \cup {CreateCall(new_id, LaunchMetadata(BBox(<<0, 0, 1, 1>>), "OPTICAL", None))}

InitStore ==
    /\ file = Valid(StoredJobs)
    /\ now = 0
    /\ ticks = 0
    /\ ids = 2
    /\ launches = 0
    /\ pc = [t \in Clients |-> "ready"]
    /\ call = [t \in Clients |-> NoCall]
    /\ ex = [j \in {} |-> None]
    /\ sched = [running |-> FALSE, task |-> "none", wake |-> 0, jobs |-> <<>>,
                job |-> None, child |-> None, stopped |-> FALSE, cycle |-> 0]
    /\ lm = None
    /\ log = <<>>
    /\ ideal = StoredJobs
    /\ persisted = Shown(file, EmptyJobs)
    /\ filled = Filled(file, EmptyJobs)
    /\ born = Born(file, EmptyJobs)
    /\ sup = NewSupervisor
    /\ unit = NoUnit
    /\ auth = NoAuth

\* A caller enters its mutation, up to the _load.
ClientCall(t) ==
    /\ pc[t] = "ready"
    /\ \E c \in ClientCalls(ids + 1) :
         /\ BeginCall(t, c, "returned")
         /\ log' = Append(log, [c EXCEPT !.ret = t])
         /\ ids' = IF c.op = "create_job" THEN ids + 1 ELSE ids
    /\ UNCHANGED <<file, now, ticks, launches, ex, sched, lm, ideal, persisted, filled, born, sup, unit, auth>>

NextStore ==
    \/ \E t \in Clients : ClientCall(t)
    \/ \E t \in Clients : JM_open(t)
    \/ \E t \in Clients : JM_write(t)

SpecStore == InitStore /\ [][NextStore]_vars

\* ------------------------------------------------------ MissionSupervisor
\* python supervisor.py: a process of its own, one event loop, one task per
\* grid cell.  The tasks interleave where they await: at the semaphore and
\* inside main.main.  (main.main of src/main.py contains no await, so with
\* it a task runs from the semaphore to its release without interruption;
\* the model lets main.main suspend, which includes that behaviour as the
\* runs in which a task resumes before any other task moves.)
\*
\* A raster file: whether its path contains "NDVI", whether it exists and
\* can be read, and its band of pixels, each NaN (None) or a value in
\* tenths.
Tif(data) == [ndvi |-> TRUE, exists |-> TRUE, readable |-> TRUE, data |-> data]
isnan(p) == p = None
NotNaN(p) == ~isnan(p)

\* main.main returns the NDVI files it made, or no file, or raises.  The
\* message of an exception is the sequence of its words; analyze_error
\* looks for words in str(error).lower().
Files == {<<>>, <<Tif(<<Some(5), Some(6)>>)>>, <<Tif(<<None, None>>)>>}
Errors == {<<"timeout">>, <<"AUTH">>, <<"client_id">>, <<"connection">>,
           <<"auth", "timeout">>}

lower(w) ==
    IF w = "AUTH" THEN "auth" ELSE IF w = "TIMEOUT" THEN "timeout"
    ELSE IF w = "CLIENT_ID" THEN "client_id" ELSE w
Lowered(str) == [k \in DOMAIN str |-> lower(str[k])]
Contains(str, w) == \E k \in DOMAIN str : str[k] = w

MainOutcomes == [files : Files] \cup [error : Errors]
Crashed(o) == "error" \in DOMAIN o

\* quality_gate(file_paths): False without files; the files are looked at
\* in order, a missing file fails, a file that is not an NDVI is skipped,
\* an NDVI fails when it cannot be read, is all NaN or is all zero where
\* it is not NaN.
RECURSIVE GateLoop(_, _)
GateLoop(file_paths, k) ==
    IF k > Len(file_paths) THEN TRUE
    ELSE LET fp == file_paths[k]
             valid_data == SelectSeq(fp.data, NotNaN)
         IN IF ~fp.exists THEN FALSE
            ELSE IF ~fp.ndvi THEN GateLoop(file_paths, k + 1)
            ELSE IF ~fp.readable THEN FALSE
            ELSE IF \A n \in DOMAIN fp.data : isnan(fp.data[n]) THEN FALSE
            ELSE IF Len(valid_data) = 0 THEN FALSE
            ELSE IF \A n \in DOMAIN valid_data : valid_data[n] = Some(0) THEN FALSE
            ELSE GateLoop(file_paths, k + 1)

quality_gate_unguarded(file_paths) == GateLoop(file_paths, 1)

quality_gate(file_paths) ==
    IF Len(file_paths) = 0 THEN FALSE ELSE GateLoop(file_paths, 1)

QualityGateFailure == "Quality Gate Failure"

analyze_error_auth_first(error, reason) ==
    IF reason = QualityGateFailure THEN "EXPAND_TIME_WINDOW"
    ELSE IF error = None THEN "GENERIC_RETRY"
    ELSE LET error_str == Lowered(error[1]) IN
         IF Contains(error_str, "auth") \/ Contains(error_str, "client_id")
         THEN "CHECK_AUTH"
         ELSE IF Contains(error_str, "timeout") THEN "REDUCE_CONCURRENCY"
         ELSE "GENERIC_RETRY"

analyze_error(error, reason) ==
    IF reason = QualityGateFailure THEN "EXPAND_TIME_WINDOW"
    ELSE IF error = None THEN "GENERIC_RETRY"
    ELSE LET error_str == Lowered(error[1]) IN
         IF Contains(error_str, "timeout") THEN "REDUCE_CONCURRENCY"
         ELSE IF Contains(error_str, "auth") \/ Contains(error_str, "client_id")
         THEN "CHECK_AUTH"
         ELSE "GENERIC_RETRY"

apply_code_rewrite_simulation_generic(strategy) == NoPatch

\* apply_code_rewrite_simulation: the parameters of the retry; a time
\* interval is a pair of days counted from today (strftime("%Y-%m-%d")).
apply_code_rewrite_simulation(strategy) ==
    IF strategy = "EXPAND_TIME_WINDOW"
    THEN [time_interval |-> <<0 - ExpandDays, 0>>]
    ELSE NoPatch

\* main.main(bbox, time_interval): what a call runs with, the default of
\* the time interval filled in.
MainCall(bbox, params) ==
    [bbox |-> bbox,
     time_interval |-> IF "time_interval" \in DOMAIN params THEN params.time_interval
                       ELSE <<0 - DefaultDays, 0>>]

\* generate_grid(center_lat, center_lon, count): the boxes of a dim x dim
\* grid, in units of step from (start_lon, start_lat), until there are
\* count of them; the break leaves the inner loop only.
Dim_floor(count) ==
    CHOOSE dim \in 0..count : dim * dim <= count /\ (dim + 1) * (dim + 1) > count

Dim(count) ==
    CHOOSE dim \in 0..count :
        dim * dim >= count /\ (dim = 0 \/ (dim - 1) * (dim - 1) < count)
GridBBox(i, j) == BBox(<<i, j, i + 1, j + 1>>)

RECURSIVE GridInner(_, _, _, _, _)
GridInner(grid, i, j, dim, count) ==
    IF j >= dim \/ Len(grid) >= count THEN grid
    ELSE GridInner(Append(grid, GridBBox(i, j)), i, j + 1, dim, count)

RECURSIVE GridOuter(_, _, _, _)
GridOuter(grid, i, dim, count) ==
    IF i >= dim THEN grid
    ELSE GridOuter(GridInner(grid, i, 0, dim, count), i + 1, dim, count)

generate_grid(count) == GridOuter(<<>>, 0, Dim(count), count)

\* A mission task: where it is, what its first run and its retry came to
\* ("pass", "fail" at the gate, "raise", or "unattempted"), and how often
\* it has called main.main and quality_gate.  A task that has ended keeps
\* nothing; sup.last is history, the tasks that ended with the latest step
\* (none or one) as they were when they ended, and sup.caught the message
\* of the exception after which the latest step began a retry (the retry
\* does not read it again).
NewMission ==
    [pc |-> "queued", first |-> "", second |-> "", calls |-> 0, gates |-> 0,
     bbox |-> None, error |-> None, runs |-> <<>>]
Queued(bbox) == [NewMission EXCEPT !.bbox = Some(bbox)]
Entered(r) ==
    [r EXCEPT !.pc = "first", !.calls = 1, !.runs = <<MainCall(r.bbox[1], NoPatch)>>]
Ended == [NewMission EXCEPT !.pc = "done"]

\* failed_missions is a list that is appended to and measured; the model
\* keeps how often each id is on it.
Appended(list, i) == Put(list, i, IF i \in DOMAIN list THEN list[i] + 1 ELSE 1)
RECURSIVE Sum(_)
Sum(list) ==
    IF DOMAIN list = {} THEN 0
    ELSE LET i == CHOOSE k \in DOMAIN list : TRUE
         IN list[i] + Sum([k \in DOMAIN list \ {i} |-> list[k]])
len(list) == Sum(list)

Inside == {i \in DOMAIN sup.m : sup.m[i].pc \in {"first", "retry"}}

service == <<file, now, ticks, ids, launches, pc, call, ex, sched, lm, log, ideal,
             persisted, filled, born, unit, auth>>

\* run_grid_mission up to its gather: the tasks start in the order of the
\* grid; as many as the semaphore admits are inside main.main, the others
\* wait at the semaphore.
run_grid_mission ==
    /\ ~sup.started
    /\ LET grid == generate_grid(MaxGrid)
           tasks == 0..(Len(grid) - 1)
           admitted == {i \in tasks : i < LimiterSize}
       IN sup' = [sup EXCEPT
                    !.started = TRUE,
                    !.total_missions = Len(grid),
                    !.value = LimiterSize - Cardinality(admitted),
                    !.m = [i \in tasks |-> IF i \in admitted
                                            THEN Entered(Queued(grid[i + 1]))
                                            ELSE Queued(grid[i + 1])]]
    /\ UNCHANGED service

sem_task_unlimited(i) ==
    /\ i \in DOMAIN sup.m
    /\ sup.m[i].pc = "queued"
    /\ \A k \in DOMAIN sup.m : k < i => sup.m[k].pc # "queued"
    /\ sup' = [sup EXCEPT !.value = @ - 1, !.m[i] = Entered(@), !.last = NoPatch, !.caught = NoPatch]
    /\ UNCHANGED service

\* sem_task: a waiting task gets the semaphore (waiters are woken in the
\* order they came) and calls execute_mission, up to the await in main.main.
sem_task(i) ==
    /\ i \in DOMAIN sup.m
    /\ sup.m[i].pc = "queued"
    /\ sup.value > 0
    /\ \A k \in DOMAIN sup.m : k < i => sup.m[k].pc # "queued"
    /\ sup' = [sup EXCEPT !.value = @ - 1, !.m[i] = Entered(@), !.last = NoPatch, !.caught = NoPatch]
    /\ UNCHANGED service

\* The mission is recorded and the task leaves the semaphore.
Completed(s, i, r) ==
    [s EXCEPT !.completed_missions = @ + 1, !.value = @ + 1,
              !.m[i] = Ended, !.last = Put(NoPatch, i, r), !.caught = NoPatch]
Failed_unrecorded(s, i, r) ==
    [s EXCEPT !.value = @ + 1, !.m[i] = Ended, !.last = Put(NoPatch, i, r), !.caught = NoPatch]
Failed(s, i, r) ==
    [s EXCEPT !.failed_missions = Appended(@, i), !.value = @ + 1,
              !.m[i] = Ended, !.last = Put(NoPatch, i, r), !.caught = NoPatch]

Retry_counted(s, i, r, strategy) ==
    IF strategy = "CHECK_AUTH" THEN Completed(s, i, [r EXCEPT !.second = "unattempted"])
    ELSE LET new_params == apply_code_rewrite_simulation(strategy)
         IN [s EXCEPT !.m[i] = [r EXCEPT !.pc = "retry", !.calls = @ + 1, !.error = None,
                                         !.runs = Append(@, MainCall(r.bbox[1], new_params))],
                      !.last = NoPatch,
                      !.caught = IF r.error = None THEN NoPatch
                                 ELSE Put(NoPatch, i, r.error[1])]

\* self_correct_and_retry up to its main.main: no retry with CHECK_AUTH.
Retry(s, i, r, strategy) ==
    IF strategy = "CHECK_AUTH" THEN Failed(s, i, [r EXCEPT !.second = "unattempted"])
    ELSE LET new_params == apply_code_rewrite_simulation(strategy)
         IN [s EXCEPT !.m[i] = [r EXCEPT !.pc = "retry", !.calls = @ + 1, !.error = None,
                                         !.runs = Append(@, MainCall(r.bbox[1], new_params))],
                      !.last = NoPatch,
                      !.caught = IF r.error = None THEN NoPatch
                                 ELSE Put(NoPatch, i, r.error[1])]

\* execute_mission from the return of the first main.main: the gate, then
\* the count or the retry; a crash goes to the retry as well.
execute_mission(i) ==
    /\ i \in DOMAIN sup.m
    /\ sup.m[i].pc = "first"
    /\ \E o \in MainOutcomes :
         LET r == sup.m[i] IN
         sup' = IF Crashed(o)
                THEN Retry(sup, i, [r EXCEPT !.first = "raise", !.error = Some(o.error)],
                           analyze_error(Some(o.error), ""))
                ELSE IF quality_gate(o.files)
                THEN Completed(sup, i, [r EXCEPT !.first = "pass", !.gates = @ + 1])
                ELSE Retry(sup, i, [r EXCEPT !.first = "fail", !.gates = @ + 1],
                           analyze_error(None, QualityGateFailure))
    /\ UNCHANGED service

self_correct_and_retry_looping(i) ==
    /\ i \in DOMAIN sup.m
    /\ sup.m[i].pc = "retry"
    /\ \E o \in MainOutcomes :
         LET r == sup.m[i] IN
         sup' = IF Crashed(o)
                THEN [sup EXCEPT !.m[i] = [r EXCEPT !.calls = @ + 1], !.last = NoPatch, !.caught = NoPatch]
                ELSE IF quality_gate(o.files)
                THEN Completed(sup, i, [r EXCEPT !.second = "pass", !.gates = @ + 1])
                ELSE Failed(sup, i, [r EXCEPT !.second = "fail", !.gates = @ + 1])
    /\ UNCHANGED service

\* self_correct_and_retry from the return of its main.main: the gate and
\* True or False, which execute_mission counts.
self_correct_and_retry(i) ==
    /\ i \in DOMAIN sup.m
    /\ sup.m[i].pc = "retry"
    /\ \E o \in MainOutcomes :
         LET r == sup.m[i] IN
         sup' = IF Crashed(o)
                THEN Failed(sup, i, [r EXCEPT !.second = "raise"])
                ELSE IF quality_gate(o.files)
                THEN Completed(sup, i, [r EXCEPT !.second = "pass", !.gates = @ + 1])
                ELSE Failed(sup, i, [r EXCEPT !.second = "fail", !.gates = @ + 1])
    /\ UNCHANGED service

\* asyncio.gather returns: every task has ended.
gathered ==
    /\ sup.started /\ ~sup.finished
    /\ \A i \in DOMAIN sup.m : sup.m[i].pc = "done"
    /\ sup' = [sup EXCEPT !.finished = TRUE, !.last = NoPatch, !.caught = NoPatch]
    /\ UNCHANGED service

NextSup ==
    \/ run_grid_mission
    \/ \E i \in DOMAIN sup.m : sem_task(i)
    \/ \E i \in DOMAIN sup.m : execute_mission(i)
    \/ \E i \in DOMAIN sup.m : self_correct_and_retry(i)
    \/ gathered

SpecSup == Init /\ [][NextSup]_vars

\* ------------------------------------------ the supervisor's methods alone
\* A fresh MissionSupervisor whose analyze_error, quality_gate or
\* generate_grid is called once with arguments of the caller's choice, as
\* its unit tests do, and on which a batch run may be started.
Seqs(S, n) == UNION {[1..k -> S] : k \in 0..n}

Words == {"timeout", "auth", "client_id", "connection", "AUTH", "TIMEOUT"}
Messages == Seqs(Words, MaxWords)
Reasons == {"", QualityGateFailure, "quality gate failure", "timeout"}

Pixels == {None, Some(0), Some(5), Some(6)}
Bands == Seqs(Pixels, MaxPixels)
Artifacts ==
    {Tif(data) : data \in Bands}
        \cup {[Tif(<<None>>) EXCEPT !.ndvi = FALSE],
              [Tif(<<Some(5)>>) EXCEPT !.ndvi = FALSE, !.exists = FALSE],
              [Tif(<<Some(5), Some(6)>>) EXCEPT !.exists = FALSE],
              [Tif(<<Some(5), Some(6)>>) EXCEPT !.readable = FALSE]}
FileLists == Seqs(Artifacts, MaxFiles)

UnitCalls ==
    [method : {"analyze_error"}, error : {None} \cup {Some(msg) : msg \in Messages},
     reason : Reasons, result : {None}]
        \cup [method : {"quality_gate"}, file_paths : FileLists, result : {None}]
        \cup [method : {"generate_grid"}, count : 0..MaxCount, result : {None}]

InitUnit ==
    /\ unit \in UnitCalls
    /\ file = Valid(EmptyJobs)
    /\ now = 0
    /\ ticks = 0
    /\ ids = 0
    /\ launches = 0
    /\ pc = [t \in {Loop} |-> "idle"]
    /\ call = [t \in {Loop} |-> NoCall]
    /\ ex = [j \in {} |-> None]
    /\ sched = [running |-> FALSE, task |-> "none", wake |-> 0, jobs |-> <<>>,
                job |-> None, child |-> None, stopped |-> FALSE, cycle |-> 0]
    /\ lm = None
    /\ log = <<>>
    /\ ideal = EmptyJobs
    /\ persisted = EmptyJobs
    /\ filled = EmptyJobs
    /\ born = EmptyJobs
    /\ sup = NewSupervisor
    /\ auth = NoAuth

Calling(method) == unit.method = method /\ unit.result = None
Returns(value) ==
    /\ unit' = [unit EXCEPT !.result = Some(value)]
    /\ UNCHANGED <<file, now, ticks, ids, launches, pc, call, ex, sched, lm, log, ideal,
                   persisted, filled, born, sup, auth>>

call_analyze_error ==
    /\ Calling("analyze_error")
    /\ Returns(analyze_error(unit.error, unit.reason))

call_quality_gate ==
    /\ Calling("quality_gate")
    /\ Returns(quality_gate(unit.file_paths))

call_generate_grid ==
    /\ Calling("generate_grid")
    /\ Returns(generate_grid(unit.count))

NextUnit ==
    \/ call_analyze_error
    \/ call_quality_gate
    \/ call_generate_grid
    \/ run_grid_mission

SpecUnit == InitUnit /\ [][NextUnit]_vars

\* -------------------------------------------------------- SentinelHubAuth
\* Threads that each evaluate SentinelHubAuth() and then read .config.  A
\* thread may be interrupted between any two statements; auth.objs are the
\* instances made, with their attributes, and auth.configs the SHConfig
\* objects made, which the instance refers to by position.
AuthThreads == 1..MaxThreads

InitAuth ==
    /\ auth = [NoAuth EXCEPT !.t = [t \in AuthThreads |->
                                       [pc |-> "new", self |-> None, seen |-> None]]]
    /\ file = Valid(EmptyJobs)
    /\ now = 0
    /\ ticks = 0
    /\ ids = 0
    /\ launches = 0
    /\ pc = [t \in {Loop} |-> "idle"]
    /\ call = [t \in {Loop} |-> NoCall]
    /\ ex = [j \in {} |-> None]
    /\ sched = [running |-> FALSE, task |-> "none", wake |-> 0, jobs |-> <<>>,
                job |-> None, child |-> None, stopped |-> FALSE, cycle |-> 0]
    /\ lm = None
    /\ log = <<>>
    /\ ideal = EmptyJobs
    /\ persisted = EmptyJobs
    /\ filled = EmptyJobs
    /\ born = EmptyJobs
    /\ sup = NewSupervisor
    /\ unit = NoUnit

AuthAt(t, p) == t \in DOMAIN auth.t /\ auth.t[t].pc = p
AuthStep(next) ==
    /\ auth' = next
    /\ UNCHANGED <<file, now, ticks, ids, launches, pc, call, ex, sched, lm, log, ideal,
                   persisted, filled, born, sup, unit>>

\* __new__: `if cls._instance is None`, outside the lock.
new_check(t) ==
    /\ AuthAt(t, "new")
    /\ AuthStep([auth EXCEPT !.t[t].pc = IF auth._instance = None THEN "lock" ELSE "return"])

\* `with cls._lock`: the thread waits until the lock is free.
new_acquire(t) ==
    /\ AuthAt(t, "lock")
    /\ auth._lock = None
    /\ AuthStep([auth EXCEPT !._lock = Some(t), !.t[t].pc = "locked"])

\* `if cls._instance is None` under the lock, and the instance is made.
new_create(t) ==
    /\ AuthAt(t, "locked")
    /\ AuthStep(IF auth._instance = None
                THEN [auth EXCEPT !.objs = Append(@, [_initialized |-> None, _config |-> None]),
                                  !._instance = Some(Len(auth.objs) + 1),
                                  !.t[t].pc = "setflag"]
                ELSE [auth EXCEPT !._lock = None, !.t[t].pc = "return"])

\* `cls._instance._initialized = False`, and the lock is released.
new_setflag(t) ==
    /\ AuthAt(t, "setflag")
    /\ AuthStep([auth EXCEPT !.objs[auth._instance[1]]._initialized = Some(FALSE),
                             !._lock = None, !.t[t].pc = "return"])

\* `return cls._instance`; __init__ is then called on it.
new_return(t) ==
    /\ AuthAt(t, "return")
    /\ AuthStep([auth EXCEPT !.t[t].self = auth._instance, !.t[t].pc = "init"])

\* __init__: `if getattr(self, "_initialized", False): return`.
init_check(t) ==
    /\ AuthAt(t, "init")
    /\ AuthStep([auth EXCEPT !.t[t].pc =
                    IF auth.objs[auth.t[t].self[1]]._initialized = Some(TRUE)
                    THEN "constructed" ELSE "config"])

\* `self._config = SHConfig()`.
init_config(t) ==
    /\ AuthAt(t, "config")
    /\ AuthStep([auth EXCEPT
                    !.configs = Append(@, [sh_base_url |-> "default", sh_token_url |-> "default"]),
                    !.objs[auth.t[t].self[1]]._config = Some(Len(auth.configs) + 1),
                    !.t[t].pc = "base"])

\* `self._config.sh_base_url = ...`, on the object self._config is now.
init_base(t) ==
    /\ AuthAt(t, "base")
    /\ AuthStep([auth EXCEPT
                    !.configs[auth.objs[auth.t[t].self[1]]._config[1]].sh_base_url = "cdse",
                    !.t[t].pc = "token"])

\* `self._config.sh_token_url = ...`.
init_token(t) ==
    /\ AuthAt(t, "token")
    /\ AuthStep([auth EXCEPT
                    !.configs[auth.objs[auth.t[t].self[1]]._config[1]].sh_token_url = "cdse",
                    !.t[t].pc = "flag"])

\* `self._initialized = True`.
init_flag(t) ==
    /\ AuthAt(t, "flag")
    /\ AuthStep([auth EXCEPT !.objs[auth.t[t].self[1]]._initialized = Some(TRUE),
                             !.t[t].pc = "constructed"])

\* The caller reads the property config of the instance it was given.
config(t) ==
    /\ AuthAt(t, "constructed")
    /\ LET _config == auth.objs[auth.t[t].self[1]]._config[1]
       IN AuthStep([auth EXCEPT !.t[t].seen = Some([object |-> _config,
                                                    value |-> auth.configs[_config]]),
                                !.t[t].pc = "done"])

NextAuth ==
    \E t \in AuthThreads :
        \/ new_check(t) \/ new_acquire(t) \/ new_create(t) \/ new_setflag(t)
        \/ new_return(t) \/ init_check(t) \/ init_config(t) \/ init_base(t)
        \/ init_token(t) \/ init_flag(t) \/ config(t)

SpecAuth == InitAuth /\ [][NextAuth]_vars

\* --------------------------------------------- the store under one caller
\* One thread calls the JobManager MaxSeq times, one call after the other,
\* on a store of two jobs: the mutations with ids that are in the store and
\* an id that is not, with and without a results patch, with no error, an
\* empty error text (str(e) of an exception without arguments) and a text.
Caller == Cl(1)
UnknownId == 9
RawResults == [raw_files |-> <<"S2">>]

SeqCalls(new_id) ==
    {StatusCall(j, status, results, error) :
        j \in DOMAIN StoredJobs \cup {UnknownId},
        status \in {"RUNNING", "COMPLETED", "FAILED"},
        results \in {NoPatch, SomeResults, RawResults},
        error \in {None, Some(""), Some(ExcText)}}
    \cup {LastRunCall(j, DueHours) : j \in DOMAIN StoredJobs \cup {UnknownId}}
    \cup {CreateCall(new_id, LaunchMetadata(BBox(<<0, 0, 1, 1>>), "OPTICAL", None))}

InitSeq ==
    /\ file = Valid(StoredJobs)
    /\ now = 0
    /\ ticks = 0
    /\ ids = 2
    /\ launches = 0
    /\ pc = [t \in {Caller} |-> "returned"]
    /\ call = [t \in {Caller} |-> NoCall]
    /\ ex = [j \in {} |-> None]
    /\ sched = [running |-> FALSE, task |-> "none", wake |-> 0, jobs |-> <<>>,
                job |-> None, child |-> None, stopped |-> FALSE, cycle |-> 0]
    /\ lm = None
    /\ log = <<>>
    /\ ideal = StoredJobs
    /\ persisted = Shown(file, EmptyJobs)
    /\ filled = Filled(file, EmptyJobs)
    /\ born = Born(file, EmptyJobs)
    /\ sup = NewSupervisor
    /\ unit = NoUnit
    /\ auth = NoAuth

\* The caller enters its next mutation, up to the _load.
SeqCall ==
    /\ pc[Caller] = "returned"
    /\ Len(log) < MaxSeq
    /\ \E c \in SeqCalls(ids + 1) :
         /\ BeginCall(Caller, c, "returned")
         /\ log' = Append(log, [c EXCEPT !.ret = Caller])
         /\ ids' = IF c.op = "create_job" THEN ids + 1 ELSE ids
    /\ UNCHANGED <<file, now, ticks, launches, ex, sched, lm, ideal, persisted, filled, born, sup, unit, auth>>

NextSeq ==
    \/ SeqCall
    \/ JM_open(Caller)
    \/ JM_write(Caller)

SpecSeq == InitSeq /\ [][NextSeq]_vars

\* ================================================================ claims
Terminal == {"COMPLETED", "FAILED"}
Rank(status) == CASE status = "PENDING" -> 0 [] status = "RUNNING" -> 1 [] OTHER -> 2

\* No thread is inside a JobManager mutation and the file parses.
Quiescent == (\A t \in DOMAIN pc : pc[t] # "call") /\ file.kind = "valid"

\* C1: the persisted status of a job only moves PENDING -> RUNNING ->
\* COMPLETED or FAILED: whatever status a readable file has shown for a job,
\* the status the file shows now is that one or a later one, and a terminal
\* status once shown is the one shown ever after.
C1_StatusMonotonic ==
    \A j \in DOMAIN _load(file) :
        \A s \in persisted[j] :
            \/ s = _load(file)[j].status
            \/ s \notin Terminal /\ Rank(s) < Rank(_load(file)[j].status)

\* C4: right after create_job has returned to the handler or to the
\* scheduler, get_job(id) returns the new job.  (That the id is new holds
\* here by the way ids are drawn.)
CreatedId == IF pc[Loop] = "l_dispatch" THEN lm[1].job_id ELSE sched.child[1].job_id

C4_CreateResolvable ==
    pc[Loop] \in {"l_dispatch", "s_dispatch"} =>
        /\ ~IsNone(get_job(file, CreatedId))
        /\ get_job(file, CreatedId)[1].id = CreatedId

\* C5: once create_job has returned id j, get_job(j) returns a job in every
\* later state, also while another writer is rewriting the file.
C5_NeverDeleted ==
    \A j \in DOMAIN ideal : ~IsNone(get_job(file, j))

\* C6: a job whose process_mission_task run has ended has a terminal status
\* in the store, and when the run ended with an exception the status is
\* FAILED with the exception text as error; this with other workers and the
\* scheduler writing to the store.
C6_ExecutedJobTerminal ==
    \A j \in DOMAIN ex :
        (pc[Ex(j)] = "done" /\ Quiescent) =>
            /\ ~IsNone(get_job(file, j))
            /\ get_job(file, j)[1].status \in Terminal
            /\ get_job(file, j)[1].status = ideal[j].status
            /\ get_job(file, j)[1].error = ideal[j].error

\* C7: process_mission_task is never invoked with the id of a job whose
\* recurrence is DAILY, and such a job's status stays PENDING.
C7_RecurringNeverExecuted ==
    /\ \A j \in (DOMAIN ex) \cap (DOMAIN ideal) : ideal[j].recurrence # Some("DAILY")
    /\ \A j \in DOMAIN ideal : ideal[j].recurrence = Some("DAILY") => ideal[j].status = "PENDING"

\* C10: when a check cycle has created a child for a parent and has come
\* back from update_last_run, the parent's last_run in the store is the time
\* of that cycle.
C10_LastRunSet ==
    (pc[Loop] \in {"s_next", "idle"} /\ Quiescent) =>
        \A i \in DOMAIN log :
            log[i].cycle = sched.cycle =>
                /\ ~IsNone(get_job(file, log[i].parent))
                /\ get_job(file, log[i].parent)[1].last_run = Some(isoformat(log[i].at))

\* ------------------------------------------- claims about the scheduler
\* The step of check_jobs that takes the next job of its listing.
TakesJob == pc[Loop] = "s_next" /\ sched.jobs # <<>> /\ sched'.jobs = Tail(sched.jobs)
Spawns == Len(log') = Len(log) + 1 /\ call'[Loop].op = "create_job"
NoSpawn == log' = log /\ call'[Loop] = NoCall

HoursSince(job) == now - job.last_run[1].iso

\* C8 as it is in the code: a recurring job is taken as due if and only if
\* it has no last_run or its last_run is more than 24 hours ago; a last_run
\* of exactly 24 hours ago is not due.
C8_DueAfter24h ==
    [][(TakesJob /\ Head(sched.jobs).recurrence = Some("DAILY")) =>
         (Spawns <=> (IsNone(Head(sched.jobs).last_run) \/ HoursSince(Head(sched.jobs)) > 24))]_vars

\* C8 as stated: due if and only if last_run is absent or now - last_run
\* >= 24h, so a last_run of exactly 24 hours ago is due.
C8_DueFrom24h ==
    [][(TakesJob /\ Head(sched.jobs).recurrence = Some("DAILY")) =>
         (Spawns <=> (IsNone(Head(sched.jobs).last_run) \/ HoursSince(Head(sched.jobs)) >= 24))]_vars

\* The first cycle has gone through a listing that held the recurring job
\* with a last_run of exactly 24 hours ago, and has created nothing.
C8_Witness ==
    /\ sched.cycle = 1 /\ pc[Loop] = "s_next" /\ sched.jobs = <<>>
    /\ ~IsNone(get_job(file, 1))
    /\ get_job(file, 1)[1].recurrence = Some("DAILY")
    /\ get_job(file, 1)[1].last_run = Some(isoformat(now - 24))
    /\ log = <<>>

\* C9: in a check cycle every listed recurring job that is due gets exactly
\* one create_job call, whose job has parent_job_id = the parent's id,
\* no recurrence (None in the store), status PENDING and the parent's bbox
\* and sensor; a
\* recurring job that is not due, and a job that is not DAILY, gets none.
IsDue(job) ==
    job.recurrence = Some("DAILY") /\ (IsNone(job.last_run) \/ HoursSince(job) > 24)

ChildOf(child, job) ==
    /\ child.parent_job_id = Some(job.id)
    /\ child.recurrence = None
    /\ child.status = "PENDING"
    /\ child.bbox = job.bbox
    /\ child.sensor = job.sensor

C9_Step ==
    /\ TakesJob =>
         IF IsDue(Head(sched.jobs))
         THEN /\ Spawns
              /\ log'[Len(log')].parent = Head(sched.jobs).id
              /\ log'[Len(log')].child = call'[Loop].job_id
              /\ \A i \in DOMAIN log :
                    ~(log[i].cycle = sched.cycle /\ log[i].parent = Head(sched.jobs).id)
              /\ \A i \in DOMAIN log : log[i].child # call'[Loop].job_id
         ELSE NoSpawn
    /\ (pc[Loop] = "call" /\ call[Loop].op = "create_job"
            /\ call[Loop].pc = "open" /\ call'[Loop].pc = "write") =>
         /\ call[Loop].job_id \notin DOMAIN call[Loop].data
         /\ ChildOf(call'[Loop].data[call[Loop].job_id], sched.job[1])
         /\ DOMAIN call'[Loop].data = (DOMAIN call[Loop].data) \cup {call[Loop].job_id}
    /\ ~TakesJob => log' = log

C9_OneChildPerDueJob == [][C9_Step]_vars

\* In its second cycle the scheduler has passed over the child of the
\* first cycle, which is in the store and has no child of its own, and
\* create_job has returned with the second child of the due parent.
C9_Witness ==
    /\ pc[Loop] = "s_dispatch"
    /\ sched.cycle = 2
    /\ Len(log) = 2
    /\ log[1].child \in DOMAIN _load(file)
    /\ \A i \in DOMAIN log : log[i].parent = 1
    /\ ~IsNone(get_job(file, sched.child[1].job_id))
    /\ ChildOf(get_job(file, sched.child[1].job_id)[1], sched.job[1])

\* C11: a check cycle always reaches the sleep of the loop, whatever the
\* workers of the children it dispatched do, also when they never finish.
C11_CycleReachesSleep == (sched.task = "cycle") ~> (sched.task = "sleeping")

\* The second cycle has created a second child and is back in check_jobs
\* while the child of the first cycle has not even started.
C11_Witness ==
    /\ sched.cycle = 2
    /\ Len(log) = 2
    /\ pc[Loop] = "s_next"
    /\ pc[Ex(log[1].child)] = "task"
    /\ log[2].child \in DOMAIN ex

\* C12: once stop() has been called, whenever that is relative to the first
\* step of the start() task, no check_jobs cycle begins and the scheduler
\* creates no child.
C12_StopSuppressesChecks ==
    [][sched.stopped => (sched'.cycle = sched.cycle /\ log' = log)]_vars

\* C13: when stop() was called while a check cycle runs, the loop does not
\* enter the sleep after that cycle.
C13_StopCheckedBeforeSleep ==
    [][(sched.task = "cycle" /\ sched.stopped /\ ~sched.running)
          => sched'.task # "sleeping"]_vars


\* ------------------------------------------ claims about the executor
\* Outcome(l, name): how the run's call of name ended, "skipped" when the
\* run has not made it.  Final(j): the update_job_status that ends run j,
\* known once the run is at its last step.
Outcome(l, name) == IF name \in DOMAIN l.invoked THEN l.invoked[name] ELSE "skipped"
Final(j) == FinalCall(j, ex[j])
Finishing(j) == ExAt(j, "finish")

\* C14: when the acquisition returns nothing the run ends FAILED with the
\* no-data error and invokes neither analysis, change detection, catalog
\* registration nor the report, whatever the weather call returns.
C14_EmptyAcquisitionStops ==
    \A j \in DOMAIN ex :
        (Finishing(j) /\ Outcome(ex[j], "download_data") = "empty") =>
            /\ Final(j).status = "FAILED"
            /\ Final(j).error = Some(NoDownload)
            /\ \A name \in {"run", "calculate_change", "add_item", "generate_pdf"} :
                  Outcome(ex[j], name) = "skipped"

\* C15: what the weather call does never changes the final status: two
\* runs of the same kind whose other calls (acquisition, analysis, the
\* read of the job, the lookup of the previous NDVI file, change
\* detection, catalog registration, report) end alike wherever both runs
\* make them, end with the same status.
OtherSteps ==
    {"download_data", "run", "get_job", "glob", "calculate_change", "add_item",
     "generate_pdf"}
Agree(a, b, name) ==
    (name \in DOMAIN a.invoked /\ name \in DOMAIN b.invoked) =>
        a.invoked[name] = b.invoked[name]
C16_EmptyAnalysisStops ==
    \A j \in DOMAIN ex :
        (Finishing(j) /\ Outcome(ex[j], "run") = "empty") =>
            /\ Final(j).status = "FAILED"
            /\ Final(j).error = Some(NoOutput)
            /\ Final(j).results = NoPatch
            /\ \A name \in {"get_job", "glob", "calculate_change", "add_item",
                             "generate_pdf"} :
                  Outcome(ex[j], name) = "skipped"

\* C16, its case: an acquisition with files, an analysis without output,
\* and the run about to record the failure.
C16_Witness ==
    \E j \in DOMAIN ex :
        /\ Finishing(j)
        /\ Outcome(ex[j], "download_data") = "files"
        /\ Outcome(ex[j], "run") = "empty"
        /\ ex[j].end = NoOutput

\* C17: when acquisition and analysis have produced files and the report
\* call raises, the update that ends the run sets COMPLETED with the raw
\* and processed files accumulated.
C17_ReportFailureCompletes ==
    \A j \in DOMAIN ex :
        (/\ Finishing(j)
         /\ ex[j].raw_files # <<>>
         /\ Outcome(ex[j], "run") = "files"
         /\ Outcome(ex[j], "generate_pdf") = "raise") =>
            /\ Final(j).status = "COMPLETED"
            /\ "raw_files" \in DOMAIN Final(j).results
            /\ Final(j).results.raw_files = ex[j].raw_files
            /\ Final(j).results.processed_files = ex[j].processed_files

\* C18: change detection is called only for a job that has a
\* parent_job_id; when it raises, the run still goes through catalog
\* registration and the report, and ends COMPLETED if the report succeeds;
\* the delta file it returns is appended to the processed files.
C18_ChangeDetectionNonFatal ==
    \A j \in DOMAIN ex :
        Finishing(j) =>
            /\ Outcome(ex[j], "calculate_change") # "skipped" =>
                  /\ ~IsNone(ex[j].job)
                  /\ ~IsNone(ex[j].job[1].parent_job_id)
            /\ Outcome(ex[j], "calculate_change") = "files" =>
                  ex[j].processed_files[Len(ex[j].processed_files)] = "CHANGE"
            /\ Outcome(ex[j], "calculate_change") = "raise" =>
                  /\ Outcome(ex[j], "add_item") # "skipped"
                  /\ Outcome(ex[j], "generate_pdf") # "skipped"
                  /\ Outcome(ex[j], "generate_pdf") = "ok" => Final(j).status = "COMPLETED"

\* C19: when catalog registration raises, the run still calls the report
\* and, the report done, ends COMPLETED; and two runs whose other calls
\* end alike end with the same status, error and files whether
\* registration succeeds or raises.
SameFinal(j, k) ==
    /\ Final(j).status = Final(k).status
    /\ Final(j).error = Final(k).error
    /\ DOMAIN Final(j).results = DOMAIN Final(k).results
    /\ "raw_files" \in DOMAIN Final(j).results =>
          /\ Final(j).results.raw_files = Final(k).results.raw_files
          /\ Final(j).results.processed_files = Final(k).results.processed_files
          /\ Final(j).results.pdf_report = Some(<<"results", "Evidence_Pack", j>>)
C19_CatalogFailureNonFatal ==
    \A j \in DOMAIN ex :
        Finishing(j) =>
            /\ Outcome(ex[j], "add_item") = "raise" =>
                  /\ Outcome(ex[j], "generate_pdf") # "skipped"
                  /\ Outcome(ex[j], "generate_pdf") = "ok" =>
                        /\ Final(j).status = "COMPLETED"
                        /\ Final(j).results.raw_files = ex[j].raw_files
                        /\ Final(j).results.processed_files = ex[j].processed_files
            /\ \A k \in DOMAIN ex :
                  (/\ Finishing(k)
                   /\ \A name \in (OtherSteps \cup {"weather"}) \ {"add_item"} :
                         Agree(ex[j], ex[k], name)) =>
                      SameFinal(j, k)

\* C19, its case: registration has raised in one run and succeeded in the
\* other, both have made their report and are about to record COMPLETED.
C19_Witness ==
    \E j, k \in DOMAIN ex :
        /\ Finishing(j) /\ Finishing(k)
        /\ Outcome(ex[j], "add_item") = "raise"
        /\ Outcome(ex[k], "add_item") = "ok"
        /\ Outcome(ex[j], "generate_pdf") = "ok"
        /\ Outcome(ex[k], "generate_pdf") = "ok"
        /\ Final(j).status = "COMPLETED"
        /\ Final(k).status = "COMPLETED"

\* C20: no failure of a collaborator or of a Job Store call, the first
\* update (RUNNING) and the update of the failure handler included, leaves
\* process_mission_task as an exception.
C20_NeverReRaises == \A j \in DOMAIN ex : pc[Ex(j)] # "raised"

\* ------------------------------------------------ claims about the store
Returned_all == \A t \in Clients : pc[t] = "returned"
Targets == {log[i].job_id : i \in DOMAIN log}

\* C2: two concurrent mutations that target different job ids are both in
\* the store once both have returned, and every other job is as it was.
C2_DisjointUpdatesKept ==
    (Returned_all /\ Cardinality(Targets) = MaxCalls) => file = Valid(ideal)

\* The records that applying the calls of S one after the other, in any
\* order, can leave.
RECURSIVE Serial(_, _)
Serial(jobs, S) ==
    IF S = {} THEN {jobs}
    ELSE UNION {Serial(Returned(log[i], jobs), S \ {i}) : i \in S}

\* C3: concurrent update_job_status calls on the same job id leave the
\* record that applying them one after the other, in some order, leaves.
C3_SameJobSerial ==
    (/\ Returned_all
     /\ Cardinality(Targets) = 1
     /\ \A i \in DOMAIN log : log[i].op = "update_job_status") =>
        \E s \in Serial(StoredJobs, DOMAIN log) :
            \A j \in Targets : get_job(file, j) = Some(s[j])

\* C23: the results of a job only grow: a job of the readable file has
\* every initial results key, and every key the file has once shown filled
\* for it is still there and is not back at its initial empty value.
C23_ResultsOnlyGrow ==
    \A j \in DOMAIN _load(file) :
        /\ DOMAIN EmptyResults \subseteq DOMAIN _load(file)[j].results
        /\ \A k \in filled[j] : k \in NonEmpty(_load(file)[j].results)

\* C24: id, created_at, bbox, start_date, end_date, sensor and
\* parent_job_id of a job never change: every job of the readable file,
\* the target of an update or not, shows them as the first file that held
\* the job did, and under the key that is its id.
C24_ParametersImmutable ==
    \A j \in DOMAIN _load(file) :
        /\ Parameters(_load(file)[j]) = born[j]
        /\ _load(file)[j].id = j

\* C24, its case: the scheduler has stamped last_run on the recurring job
\* and a worker has taken the child it created to COMPLETED.
C24_Witness ==
    /\ file.kind = "valid"
    /\ \E j \in DOMAIN file.jobs :
         /\ file.jobs[j].parent_job_id = Some(1)
         /\ file.jobs[j].status = "COMPLETED"
         /\ file.jobs[j].results.raw_files # <<>>
    /\ 1 \in DOMAIN file.jobs
    /\ ~IsNone(file.jobs[1].last_run)
    /\ fromisoformat(file.jobs[1].last_run[1]) >= DueHours - 1

\* C25: list_jobs returns every job of the store exactly once, latest
\* created_at first: when a cycle takes its listing, the listing has as
\* many entries as the store has jobs, each job of the store is one of
\* them, and no entry was created earlier than the entry after it.
Listing(l, jobs) ==
    /\ Len(l) = Cardinality(DOMAIN jobs)
    /\ \A j \in DOMAIN jobs : Cardinality({i \in DOMAIN l : l[i] = jobs[j]}) = 1
    /\ \A i \in 1..(Len(l) - 1) :
          fromisoformat(l[i].created_at) >= fromisoformat(l[i + 1].created_at)
C25_ListedOnceLatestFirst ==
    [][sched'.cycle # sched.cycle => Listing(sched'.jobs, _load(file))]_vars

\* C25, its case: a cycle has just listed a store that holds the recurring
\* job and, after it in the file, a child created later: the child is
\* listed first.
C25_Witness ==
    /\ sched.task = "cycle"
    /\ sched.jobs = list_jobs(file)
    /\ Len(sched.jobs) >= 2
    /\ sched.jobs[1].id > sched.jobs[2].id
    /\ fromisoformat(sched.jobs[1].created_at) > fromisoformat(sched.jobs[2].created_at)

\* C26: the error field is set only on FAILED: a job of the readable file
\* that has an error has status FAILED.
C26_ErrorOnlyOnFailed ==
    \A j \in DOMAIN _load(file) :
        ~IsNone(_load(file)[j].error) => _load(file)[j].status = "FAILED"

\* C26, its case: the file shows a run that has failed with its error
\* and a run that has completed without one.
C26_Witness ==
    \E j, k \in DOMAIN _load(file) :
        /\ _load(file)[j].status = "FAILED"
        /\ _load(file)[j].error \in {Some(NoDownload), Some(NoOutput), Some(ExcText)}
        /\ _load(file)[k].status = "COMPLETED"
        /\ IsNone(_load(file)[k].error)

\* --------------------------------------- claims about the store, one caller
\* The caller is inside an update_job_status for a job of the store and
\* has loaded it; or it has built the snapshot and opened the file.
Updating == /\ pc[Caller] = "call"
            /\ call[Caller].pc = "open"
            /\ call[Caller].op = "update_job_status"
            /\ call[Caller].job_id \in DOMAIN _load(file)
Writing == pc[Caller] = "call" /\ call[Caller].pc = "write"

SameExcept(old, new, fields) ==
    /\ DOMAIN new = DOMAIN old
    /\ \A f \in DOMAIN old \ fields : new[f] = old[f]

\* C21: update_job_status on a job of the store gives every key of the
\* patch its value from the patch and leaves every other results key as
\* it was, sets the status given, sets the error when one is given, and
\* changes no other field of the job; that is what reaches the file.
C21_Merged(given) ==
    LET c == call[Caller]
        old == _load(file)[c.job_id]
        new == call'[Caller].data[c.job_id]
    IN /\ call'[Caller].pc = "write"
       /\ \A k \in DOMAIN c.results : new.results[k] = c.results[k]
       /\ \A k \in DOMAIN old.results \ DOMAIN c.results : new.results[k] = old.results[k]
       /\ DOMAIN new.results = DOMAIN old.results \cup DOMAIN c.results
       /\ new.status = c.status
       /\ given => new.error = c.error
       /\ SameExcept(old, new, {"status", "results", "error"})

C21_UpdateMerges ==
    [][/\ Updating => C21_Merged(~IsNone(call[Caller].error))
       /\ Writing => file' = Valid(call[Caller].data)]_vars

\* C21 with 'given' read as 'given and not empty', as the code tests it.
C21_UpdateMergesNonEmpty ==
    [][/\ Updating =>
            C21_Merged(~IsNone(call[Caller].error) /\ call[Caller].error # Some(""))
       /\ Writing => file' = Valid(call[Caller].data)]_vars

\* C22: update_job_status and update_last_run with an id that is not in
\* the store return at once and leave jobs.json as it is.
UpdatingUnknown ==
    /\ pc[Caller] = "call"
    /\ call[Caller].pc = "open"
    /\ call[Caller].op \in {"update_job_status", "update_last_run"}
    /\ call[Caller].job_id \notin DOMAIN _load(file)
C22_UnknownIdNoOp ==
    [][UpdatingUnknown =>
          /\ file' = file
          /\ pc'[Caller] = "returned"
          /\ call'[Caller] = NoCall]_vars

\* C22, its case: an update has changed the store, then an update with an
\* unknown id has returned.
C22_Witness ==
    /\ pc[Caller] = "returned"
    /\ Len(log) = 2
    /\ log[1].job_id \in DOMAIN StoredJobs
    /\ log[2].op \in {"update_job_status", "update_last_run"}
    /\ log[2].job_id = UnknownId
    /\ file.kind = "valid"
    /\ file # Valid(StoredJobs)
    /\ UnknownId \notin DOMAIN file.jobs

\* ------------------------------------------- claims about the supervisor
\* C27: in the batch run the number of missions inside execute_mission, in
\* their first run or in their retry, never exceeds the limiter size 5,
\* whatever the order in which missions block and resume; every mission
\* inside holds exactly one slot of the limiter, so that a retry runs in
\* the slot of its mission and takes no other.
C27_LimiterBounds ==
    sup.started =>
        /\ Cardinality(Inside) <= LimiterSize
        /\ sup.value = LimiterSize - Cardinality(Inside)

\* The limiter binds: five missions inside, one of them in its retry, and
\* one mission waiting.
C27_Witness ==
    /\ Cardinality(Inside) = LimiterSize
    /\ \E i \in Inside : sup.m[i].pc = "retry"
    /\ \E i \in DOMAIN sup.m : sup.m[i].pc = "queued"

\* C28: at most one retry per mission: whatever the gate says and whatever
\* is raised, a mission that is running or has just ended has called
\* main.main at least once and at most twice, and the quality gate at most
\* twice.
Attempts(r) == r.calls \in 1..2 /\ r.gates \in 0..2 /\ r.gates <= r.calls

C28_AtMostOneRetry ==
    /\ \A i \in Inside : Attempts(sup.m[i])
    /\ \A i \in DOMAIN sup.last : Attempts(sup.last[i])

\* A mission has just ended after two runs and two verdicts of the gate,
\* another one had ended before it.
C28_Witness ==
    /\ \E i \in DOMAIN sup.last :
         sup.last[i].calls = 2 /\ sup.last[i].gates = 2
    /\ \E i \in DOMAIN sup.m : i \notin DOMAIN sup.last /\ sup.m[i].pc = "done"

\* C29: no exception of a mission escapes, and every mission is recorded
\* exactly once: a task that ends adds one to completed_missions or puts
\* its id on failed_missions, never both and never neither, and nothing
\* else changes the two; so no id is on failed_missions twice, and when
\* the batch run has finished completed_missions + len(failed_missions)
\* equals total_missions, in every interleaving of the missions.
EndedSet(s) == {i \in DOMAIN s.m : s.m[i].pc = "done"}

C29_Counts ==
    /\ sup.completed_missions + len(sup.failed_missions) = Cardinality(EndedSet(sup))
    /\ \A i \in DOMAIN sup.failed_missions :
         sup.failed_missions[i] = 1 /\ i \in EndedSet(sup)
    /\ sup.finished =>
         /\ EndedSet(sup) = DOMAIN sup.m
         /\ sup.completed_missions + len(sup.failed_missions) = sup.total_missions

C29_Step ==
    LET ending == EndedSet(sup') \ EndedSet(sup)
    IN IF ending = {}
       THEN /\ sup'.completed_missions = sup.completed_missions
            /\ sup'.failed_missions = sup.failed_missions
       ELSE \E i \in ending :
              /\ ending = {i}
              /\ \/ /\ sup'.completed_missions = sup.completed_missions + 1
                    /\ sup'.failed_missions = sup.failed_missions
                 \/ /\ sup'.completed_missions = sup.completed_missions
                    /\ sup'.failed_missions = Appended(sup.failed_missions, i)

C29_EveryOutcomeRecordedOnce == []C29_Counts /\ [][C29_Step]_vars

\* The batch run has finished, with completed missions and with more than
\* one failed mission.
C29_Witness ==
    /\ sup.finished
    /\ sup.completed_missions > 0
    /\ len(sup.failed_missions) > 1
    /\ sup.completed_missions + len(sup.failed_missions) = MaxGrid

\* C30: a mission is counted in completed_missions exactly if its first
\* run passes the quality gate, or its first run fails the gate or raises
\* and its one retry passes the gate; in every other case (the retry fails
\* the gate, the retry raises, or no retry is attempted) its id is put on
\* failed_missions.  A first run that raises and a retry that passes make
\* two calls of main.main and a completed mission.
Passed(r) ==
    \/ r.first = "pass" /\ r.second = ""
    \/ r.first \in {"fail", "raise"} /\ r.second = "pass"
NotPassed(r) ==
    /\ r.first \in {"fail", "raise"}
    /\ r.second \in {"fail", "raise", "unattempted"}

C30_Step ==
    \A i \in DOMAIN sup'.last :
        LET r == sup'.last[i] IN
        /\ Passed(r) \/ NotPassed(r)
        /\ Passed(r) <=> sup'.completed_missions = sup.completed_missions + 1
        /\ Passed(r) => sup'.failed_missions = sup.failed_missions
        /\ NotPassed(r) =>
              /\ sup'.completed_missions = sup.completed_missions
              /\ sup'.failed_missions = Appended(sup.failed_missions, i)
        /\ r.first = "raise" /\ r.second = "pass" => r.calls = 2

C30_CompletedIffGatePassed == [][C30_Step]_vars

\* A mission whose first run raised has just been counted completed after
\* its retry, and another mission is on failed_missions.
C30_Witness ==
    /\ \E i \in DOMAIN sup.last :
         /\ sup.last[i].first = "raise" /\ sup.last[i].second = "pass"
         /\ sup.last[i].calls = 2
    /\ sup.completed_missions > 0
    /\ len(sup.failed_missions) > 0

\* C31: an authentication failure is never retried: a mission whose first
\* run raises an exception whose message contains an authentication
\* indicator, whatever else it contains, has called main.main exactly once
\* and its id is put on failed_missions.
AuthIndicator(msg) ==
    Contains(Lowered(msg), "auth") \/ Contains(Lowered(msg), "client_id")

FirstRaised(i, msg) ==
    /\ sup.m[i].pc = "first"
    /\ \/ i \in DOMAIN sup'.caught /\ sup'.caught[i] = msg
       \/ i \in DOMAIN sup'.last /\ sup'.last[i].error = Some(msg)

C31_Step ==
    \A i \in DOMAIN sup.m : \A msg \in Errors :
        FirstRaised(i, msg) /\ AuthIndicator(msg) =>
            /\ i \in DOMAIN sup'.last
            /\ sup'.last[i].calls = 1
            /\ i \in DOMAIN sup'.failed_missions

C31_AuthNeverRetried == [][C31_Step]_vars

\* C33: a quality gate failure always gives the strategy
\* EXPAND_TIME_WINDOW, and the retry that follows it calls main.main with
\* a time window strictly wider than that of the first run (60 days against
\* the default 30) and with the region of the first run.
Width(time_interval) == time_interval[2] - time_interval[1]
Known == [i \in Inside \cup DOMAIN sup.last |->
            IF i \in DOMAIN sup.last THEN sup.last[i] ELSE sup.m[i]]

C33_GateFailureWidensWindow ==
    /\ \A error \in {None} \cup {Some(msg) : msg \in Errors} :
         analyze_error(error, QualityGateFailure) = "EXPAND_TIME_WINDOW"
    /\ \A i \in DOMAIN Known :
         LET r == Known[i] IN
         r.first = "fail" =>
            /\ Len(r.runs) = 2
            /\ Width(r.runs[1].time_interval) = DefaultDays
            /\ Width(r.runs[2].time_interval) = ExpandDays
            /\ Width(r.runs[2].time_interval) > Width(r.runs[1].time_interval)
            /\ r.runs[2].bbox = r.runs[1].bbox
            /\ r.bbox = Some(r.runs[1].bbox)

\* A mission whose first run failed the gate is in its retry, and another
\* has ended after such a retry.
C33_Witness ==
    /\ \E i \in Inside : sup.m[i].pc = "retry" /\ sup.m[i].first = "fail"
    /\ \E i \in DOMAIN sup.last : sup.last[i].first = "fail"

\* ---------------------------------- claims about the supervisor's methods
\* C32: analyze_error classifies by a fixed table of rules read from the
\* top, for every message and reason: the reason "Quality Gate Failure"
\* gives EXPAND_TIME_WINDOW whatever the exception; otherwise a message
\* with a timeout indicator gives REDUCE_CONCURRENCY; otherwise a message
\* with an authentication indicator gives CHECK_AUTH; otherwise, and
\* without an exception, GENERIC_RETRY.
Matches(k, error, reason) ==
    CASE k = 1 -> reason = QualityGateFailure
      [] k = 2 -> error # None /\ Contains(Lowered(error[1]), "timeout")
      [] k = 3 -> error # None /\ AuthIndicator(error[1])
      [] k = 4 -> TRUE
Strategies ==
    <<"EXPAND_TIME_WINDOW", "REDUCE_CONCURRENCY", "CHECK_AUTH", "GENERIC_RETRY">>
RuleTable(error, reason) ==
    Strategies[CHOOSE k \in 1..4 :
                 /\ Matches(k, error, reason)
                 /\ \A h \in 1..(k - 1) : ~Matches(h, error, reason)]

Answered(method) == unit.method = method /\ unit.result # None

C32_ClassificationIsRuleTable ==
    Answered("analyze_error") =>
        unit.result[1] = RuleTable(unit.error, unit.reason)

\* analyze_error has answered for a message with both indicators and no
\* quality gate reason: the timeout rule comes first.
C32_Witness ==
    /\ Answered("analyze_error")
    /\ unit.error = Some(<<"AUTH", "timeout">>)
    /\ unit.reason = ""
    /\ unit.result = Some("REDUCE_CONCURRENCY")

\* C34: the verdicts of the quality gate: it fails on an empty list; it
\* fails when some NDVI artifact has only no-data pixels; it fails when the
\* valid pixels of some NDVI artifact are all zero; it passes when the list
\* is not empty and every NDVI artifact has valid pixels with varied
\* values.
ValidPixels(a) == {a.data[n] : n \in {n \in DOMAIN a.data : ~isnan(a.data[n])}}
OnlyNoData(a) == ValidPixels(a) = {}
AllZero(a) == ValidPixels(a) = {Some(0)}
Varied(a) == Cardinality(ValidPixels(a)) > 1
Ndvi(file_paths) == {file_paths[k] : k \in {k \in DOMAIN file_paths : file_paths[k].ndvi}}

GateVerdicts(file_paths, verdict) ==
    /\ Len(file_paths) = 0 => verdict = FALSE
    /\ (\E a \in Ndvi(file_paths) : OnlyNoData(a)) => verdict = FALSE
    /\ (\E a \in Ndvi(file_paths) : AllZero(a)) => verdict = FALSE

C34_GateVerdicts ==
    Answered("quality_gate") =>
        /\ GateVerdicts(unit.file_paths, unit.result[1])
        /\ (/\ Len(unit.file_paths) > 0
            /\ \A a \in Ndvi(unit.file_paths) : Varied(a))
              => unit.result[1] = TRUE

\* C34 as it holds: the same, and the gate passes when moreover every
\* listed file exists and every NDVI artifact can be read.
C34_GateVerdictsOfReadableFiles ==
    Answered("quality_gate") =>
        /\ GateVerdicts(unit.file_paths, unit.result[1])
        /\ (/\ Len(unit.file_paths) > 0
            /\ \A k \in DOMAIN unit.file_paths : unit.file_paths[k].exists
            /\ \A a \in Ndvi(unit.file_paths) : a.readable /\ Varied(a))
              => unit.result[1] = TRUE

\* The gate has passed a list of a file that is not an NDVI and holds no
\* data, and a varied NDVI artifact.
C34_Witness ==
    /\ Answered("quality_gate")
    /\ Len(unit.file_paths) = 2
    /\ ~unit.file_paths[1].ndvi /\ OnlyNoData(unit.file_paths[1])
    /\ unit.file_paths[2].ndvi /\ Varied(unit.file_paths[2])
    /\ unit.result = Some(TRUE)

\* C35: the gate fails for an NDVI artifact whose valid pixels all hold
\* one constant value, whatever the constant, not only zero; it passes an
\* artifact only when its valid pixels are not all equal.
Constant(a) == Cardinality(ValidPixels(a)) = 1

C35_ConstantArtifactFails ==
    Answered("quality_gate") =>
        /\ (\E a \in Ndvi(unit.file_paths) : Constant(a)) => unit.result[1] = FALSE
        /\ unit.result[1] = TRUE => \A a \in Ndvi(unit.file_paths) : Varied(a)

\* C36: generate_grid returns exactly count cells, for every count >= 0:
\* the first count positions, in the order they are generated, of a grid
\* of dim x dim with dim = ceil(sqrt(count)); the positions (i, j) are
\* pairwise distinct and 0 <= i, j < dim.  run_grid_mission sets
\* total_missions to the number of cells and starts one mission per cell,
\* with distinct ids.
CeilSqrt(count) == CHOOSE d \in 0..count : d * d >= count /\ \A e \in 0..(d - 1) : e * e < count
Position(n, dim) == <<n \div dim, n % dim>>
CellAt(pos) == BBox(<<pos[1], pos[2], pos[1] + 1, pos[2] + 1>>)

IsGrid(grid, count) ==
    LET dim == CeilSqrt(count) IN
    /\ Len(grid) = count
    /\ \A k \in 1..count :
         /\ grid[k] = CellAt(Position(k - 1, dim))
         /\ Position(k - 1, dim)[1] \in 0..(dim - 1)
         /\ Position(k - 1, dim)[2] \in 0..(dim - 1)
    /\ \A k, h \in 1..count : k # h => grid[k] # grid[h]

C36_GridHasCountCells ==
    /\ Answered("generate_grid") => IsGrid(unit.result[1], unit.count)
    /\ sup.started =>
         /\ sup.total_missions = MaxGrid
         /\ DOMAIN sup.m = 0..(MaxGrid - 1)
         /\ IsGrid([k \in 1..MaxGrid |-> sup.m[k - 1].bbox[1]], MaxGrid)

\* generate_grid has answered for a count that is not a square, and a
\* batch run has been started.
C36_Witness ==
    /\ Answered("generate_grid")
    /\ unit.count = MaxCount
    /\ Len(unit.result[1]) = MaxCount
    /\ sup.started

\* ------------------------------------------------ claims about the auth
\* C37: SentinelHubAuth is a singleton of the process: every construction,
\* concurrent first constructions from several threads included, returns
\* the same instance, and its configuration object is made once, so that
\* all callers see the same config object in every interleaving.
C37_SingletonConfig ==
    /\ Len(auth.objs) <= 1
    /\ \A t, u \in DOMAIN auth.t :
         auth.t[t].self # None /\ auth.t[u].self # None => auth.t[t].self = auth.t[u].self
    /\ Len(auth.configs) <= 1
    /\ \A t, u \in DOMAIN auth.t :
         auth.t[t].seen # None /\ auth.t[u].seen # None => auth.t[t].seen = auth.t[u].seen

\* -------------------------------------- claims about the stored results
\* C38: in every state, concurrent writers of the store included, a job
\* whose stored status is COMPLETED has raw files, processed files and a
\* report path in its results, and a job whose status is PENDING has the
\* empty results it was created with.
C38_ResultsMatchStatus ==
    \A j \in DOMAIN _load(file) :
        LET job == _load(file)[j] IN
        /\ job.status = "COMPLETED" =>
              /\ job.results.raw_files # <<>>
              /\ job.results.processed_files # <<>>
              /\ job.results.pdf_report # None
        /\ job.status = "PENDING" => job.results = EmptyResults

\* The store shows a completed job next to a pending one.
C38_Witness ==
    /\ \E j \in DOMAIN _load(file) : _load(file)[j].status = "COMPLETED"
    /\ \E j \in DOMAIN _load(file) : _load(file)[j].status = "PENDING"

\* -------------------------------------- claims about the scheduler's pace
\* C39: for one recurring parent the scheduler never creates two children
\* less than 24 hours apart: once a child has been spawned for a parent, no
\* check cycle of the next 24 hours spawns another one for it, however the
\* scheduler's write of last_run interleaves with the store writes of the
\* running executors.
C39_ChildrenADayApart ==
    \A a, b \in DOMAIN log :
        a < b /\ log[a].parent = log[b].parent =>
            log[b].at - log[a].at >= DueHours

\* -------------------------------------- claims about a cycle that raises
\* The children created so far that no worker has been handed.
Undispatched == {n \in DOMAIN log : log[n].child \notin DOMAIN ex}

\* Once a cycle is over and the scheduler sleeps, every child it has
\* created has been handed to a worker.  Nothing but the cycle that created
\* a child hands it over, so a child without a worker then stays PENDING.
C40_Dispatched == sched.task = "sleeping" => Undispatched = {}

\* A cycle goes to sleep only when no job of its listing is left unchecked.
C40_Step == sched.task = "cycle" /\ sched'.task = "sleeping" => sched.jobs = <<>>

\* C40: every child the scheduler creates is dispatched to the executor,
\* and the failure of one recurring job does not stop the cycle: when
\* processing a job raises, its child is not left PENDING without a worker
\* and the remaining jobs of the cycle are still checked.
C40_RaiseLeavesNoOrphan == []C40_Dispatched /\ [][C40_Step]_vars

\* The two halves of C40 on their own.
C40_NoChildWithoutWorker == []C40_Dispatched
C40_CycleGoesOn == [][C40_Step]_vars
====
